---------------------------- MODULE Spec2Model ----------------------------
(***************************************************************************)
(* Model of thyme's theme construction (src/src/theme.rs): the widget      *)
(* theme arena built by WidgetTheme::create and the resolution of `from`   *)
(* references by the loop of ThemeSet::new, merge_from and                 *)
(* add_children_recursive.                                                 *)
(*                                                                         *)
(* Strings are sequences of atoms; the atom "/" is the path separator and  *)
(* every other atom is a run of characters without '/'.  Option<T> is a    *)
(* sequence of length 0 (None) or 1 (Some).  A HashMap is a function; the  *)
(* order in which a HashMap is iterated is chosen nondeterministically.    *)
(***************************************************************************)
EXTENDS Integers, Sequences, FiniteSets, TLC

(***************************************************************************)
(* Bounds of the model.                                                    *)
(***************************************************************************)
\* const MAX_ITERATIONS: i32 = 20
MAX_ITERATIONS == 20

(***************************************************************************)
(* Option, strings, maps.                                                  *)
(***************************************************************************)
None == <<>>
Some(x) == <<x>>
IsSome(o) == o # None
Unwrap(o) == o[1]

\* format!("{}/{}", a, b)
Join(a, b) == a \o <<"/">> \o b

\* ContainsSlash with a slip: only the first character is looked at
ContainsSlashFirstOnly(s) == Len(s) > 0 /\ s[1] = "/"

\* str::contains('/')
ContainsSlash(s) == \E i \in 1..Len(s) : s[i] = "/"

\* HashMap::insert
Insert(m, k, v) == [x \in (DOMAIN m) \cup {k} |-> IF x = k THEN v ELSE m[x]]

\* HashMap::values
Values(m) == {m[k] : k \in DOMAIN m}

\* themes[handle.id as usize]
At(themes, h) == themes[h + 1]

\* all orders in which the keys of a map can be iterated
RECURSIVE Orders(_)
Orders(S) ==
    IF S = {} THEN {<<>>}
    ELSE UNION {{<<k>> \o o : o \in Orders(S \ {k})} : k \in S}

(***************************************************************************)
(* WidgetThemeDefinition (theme_definition.rs) and the inputs.             *)
(***************************************************************************)
\* a widget definition with every optional field absent and no children
WidgetThemeDefinition ==
    [from |-> None, text |-> None, font |-> None, background |-> None,
     foreground |-> None, text_color |-> None, wants_mouse |-> None,
     wants_scroll |-> None, text_align |-> None, pos |-> None, size |-> None,
     width_from |-> None, height_from |-> None, border |-> None,
     align |-> None, child_align |-> None, layout |-> None,
     layout_spacing |-> None, children |-> <<>>]

\* the registered font and image tables handed to WidgetTheme::create
FontTable == (<<"medium">> :> [handle |-> 0, line_height |-> 16])
             @@ (<<"small">> :> [handle |-> 1, line_height |-> 10])
ImageTable == (<<"gui", "/", "button">> :> [id |-> 0])
              @@ (<<"gui", "/", "close">> :> [id |-> 1])
              @@ (<<"gui", "/", "frame">> :> [id |-> 2])

\* the theme of the crate documentation (lib.rs, Widget `from` attribute)
DocTheme ==
    (<<"button">> :> [WidgetThemeDefinition EXCEPT
                        !.background = Some(<<"gui", "/", "button">>),
                        !.size = Some(<<100, 25>>)])
 @@ (<<"titlebar">> :> [WidgetThemeDefinition EXCEPT
        !.from = Some(<<"button">>),
        !.children =
            (<<"label">> :> [WidgetThemeDefinition EXCEPT
                                !.font = Some(<<"medium">>)])
         @@ (<<"close_button">> :> [WidgetThemeDefinition EXCEPT
                                !.from = Some(<<"button">>),
                                !.foreground = Some(<<"gui", "/", "close">>),
                                !.size = Some(<<25, 25>>)])])
 @@ (<<"main_window_titlebar">> :> [WidgetThemeDefinition EXCEPT
        !.from = Some(<<"titlebar">>),
        !.children =
            (<<"label">> :> [WidgetThemeDefinition EXCEPT
                                !.text = Some(<<"Main Window">>)])])

\* shorthands for writing definitions
Widget(from, children) ==
    [WidgetThemeDefinition EXCEPT !.from = from, !.children = children]
Leaf(from) == Widget(from, <<>>)

\* x/c/g and w/k refer to w, w refers to v, y refers to x
LostTheme ==
    (<<"x">> :> Widget(None,
        (<<"c">> :> Widget(None, (<<"g">> :> Leaf(Some(<<"w">>)))))))
 @@ (<<"w">> :> Widget(Some(<<"v">>), (<<"k">> :> Leaf(Some(<<"w">>)))))
 @@ (<<"y">> :> Leaf(Some(<<"x">>)))
 @@ (<<"v">> :> [WidgetThemeDefinition EXCEPT !.size = Some(<<10, 10>>)])

\* a chain of references a -> b -> c
ChainTheme ==
    (<<"a">> :> [Leaf(Some(<<"b">>)) EXCEPT !.text = Some(<<"a">>)])
 @@ (<<"b">> :> [Leaf(Some(<<"c">>)) EXCEPT !.pos = Some(<<1, 2>>)])
 @@ (<<"c">> :> [Leaf(None) EXCEPT !.size = Some(<<3, 4>>),
                                   !.pos = Some(<<5, 6>>)])

\* two top-level widgets that refer to each other, and one that is plain
CycleTheme ==
    (<<"a">> :> Leaf(Some(<<"b">>)))
 @@ (<<"b">> :> Leaf(Some(<<"a">>)))
 @@ (<<"c">> :> [Leaf(None) EXCEPT !.size = Some(<<3, 4>>)])

\* a widget that refers to itself, and one that refers to it
SelfTheme ==
    (<<"a">> :> Leaf(Some(<<"a">>)))
 @@ (<<"b">> :> Widget(Some(<<"a">>), (<<"c">> :> Leaf(None))))

\* a nested widget with a reference no widget has, below a widget that
\* inherits a child of the same local id
UnknownTheme ==
    (<<"button">> :> Widget(None,
        (<<"x">> :> [Leaf(None) EXCEPT !.size = Some(<<3, 4>>)])))
 @@ (<<"panel">> :> Widget(Some(<<"button">>),
        (<<"x">> :> Leaf(Some(<<"nope">>)))))

\* a top-level widget with a reference no widget has
UnknownTopTheme ==
    (<<"a">> :> Leaf(Some(<<"nope">>)))
 @@ (<<"b">> :> Widget(Some(<<"a">>), (<<"c">> :> Leaf(None))))

\* a nested widget with a reference of its own, below a widget that inherits
\* a child of the same local id
OverrideTheme ==
    (<<"button">> :> Widget(None,
        (<<"x">> :> [Leaf(None) EXCEPT !.size = Some(<<3, 4>>)])))
 @@ (<<"other">> :> [Leaf(None) EXCEPT
                        !.background = Some(<<"gui", "/", "frame">>)])
 @@ (<<"panel">> :> Widget(Some(<<"button">>),
        (<<"x">> :> Leaf(Some(<<"other">>)))))

\* a widget one level down that refers to its parent
ParentTheme ==
    (<<"a">> :> [Widget(None, (<<"b">> :> Leaf(Some(<<"a">>))))
                    EXCEPT !.size = Some(<<3, 4>>)])

\* a widget two levels down that refers to its top-level ancestor
AncestorTheme ==
    (<<"a">> :> Widget(None,
        (<<"b">> :> Widget(None, (<<"c">> :> Leaf(Some(<<"a">>)))))))

\* a widget that refers to one of its descendants
DescendantTheme ==
    (<<"a">> :> Widget(Some(<<"a", "/", "b">>),
        (<<"b">> :> [Widget(None, (<<"c">> :> Leaf(None)))
                        EXCEPT !.size = Some(<<3, 4>>)])))

\* two widgets inherit a subtree of depth two from the same source
GrandchildTheme ==
    (<<"x">> :> Widget(None,
        (<<"c">> :> Widget(None,
            (<<"g">> :> [Leaf(None) EXCEPT !.size = Some(<<3, 4>>)])))))
 @@ (<<"y">> :> Leaf(Some(<<"x">>)))
 @@ (<<"z">> :> Leaf(Some(<<"x">>)))

\* source and destination with every field, a shared child and children of
\* their own
FieldsTheme ==
    (<<"src">> :> [from |-> None,
                   text |-> Some(<<"source">>),
                   font |-> Some(<<"medium">>),
                   background |-> Some(<<"gui", "/", "button">>),
                   foreground |-> Some(<<"gui", "/", "close">>),
                   text_color |-> Some(<<255, 0, 0, 255>>),
                   wants_mouse |-> Some(TRUE),
                   wants_scroll |-> Some(TRUE),
                   text_align |-> Some("Center"),
                   pos |-> Some(<<1, 2>>),
                   size |-> Some(<<3, 4>>),
                   width_from |-> Some("Parent"),
                   height_from |-> Some("FontLine"),
                   border |-> Some(<<1, 1, 1, 1>>),
                   align |-> Some("TopLeft"),
                   child_align |-> Some("Bot"),
                   layout |-> Some("Vertical"),
                   layout_spacing |-> Some(<<5, 5>>),
                   children |->
                       (<<"both">> :> [Widget(None,
                                          (<<"deep">> :> [Leaf(None) EXCEPT
                                              !.text = Some(<<"deep">>)]))
                                       EXCEPT !.font = Some(<<"small">>),
                                              !.pos = Some(<<7, 7>>)])
                    @@ (<<"only_src">> :> [Widget(None,
                                              (<<"inner">> :> [Leaf(None) EXCEPT
                                                  !.size = Some(<<6, 6>>)]))
                                           EXCEPT !.text = Some(<<"s">>)])])
 @@ (<<"dst">> :> [Widget(Some(<<"src">>),
                       (<<"both">> :> [Leaf(None) EXCEPT
                                          !.pos = Some(<<8, 8>>),
                                          !.text = Some(<<"b">>)])
                    @@ (<<"only_dst">> :> [Leaf(None) EXCEPT
                                              !.size = Some(<<9, 9>>)]))
                   EXCEPT !.size = Some(<<30, 40>>),
                          !.wants_mouse = Some(FALSE),
                          !.text_align = Some("Left"),
                          !.background = Some(<<"gui", "/", "frame">>)])
 @@ (<<"bare">> :> Leaf(Some(<<"src">>)))

\* the references a widget of a generated theme can have
\* a widget whose child inherits from the like-named child of a widget that
\* itself inherits from the first: the references a/c -> b/c and b -> a
\* form no cycle
CrossTheme ==
    (<<"a">> :> Widget(None, (<<"c">> :> [Leaf(Some(<<"b", "/", "c">>))
                                            EXCEPT !.pos = Some(<<1, 1>>)])))
 @@ (<<"b">> :> Widget(Some(<<"a">>),
                       (<<"c">> :> [Leaf(None) EXCEPT
                                        !.size = Some(<<2, 2>>)])))

\* a local id two levels down contains the path separator
SlashTheme ==
    (<<"a">> :> Widget(None,
        (<<"b">> :> Widget(None, (<<"x", "/", "y">> :> Leaf(None))))))
 @@ (<<"c">> :> Leaf(Some(<<"a">>)))

\* a top-level id contains the path separator
SlashTopTheme ==
    (<<"a", "/", "b">> :> [Leaf(None) EXCEPT !.size = Some(<<1, 1>>)])
 @@ (<<"a">> :> Widget(None, (<<"b">> :> Leaf(None))))

\* a nested widget names a foreground image that is not registered
MissingImageTheme ==
    (<<"a">> :> [Widget(None,
                    (<<"b">> :> [Leaf(None) EXCEPT
                                   !.foreground = Some(<<"gui", "/", "nope">>)]))
                 EXCEPT !.background = Some(<<"gui", "/", "frame">>)])
 @@ (<<"c">> :> [Leaf(Some(<<"a">>)) EXCEPT !.font = Some(<<"small">>)])

\* a nested widget names a font that is not registered, a top-level one a
\* background image that is not
MissingFontTheme ==
    (<<"a">> :> Widget(None,
                    (<<"b">> :> [Leaf(None) EXCEPT
                                   !.font = Some(<<"huge">>)])))
 @@ (<<"c">> :> [Leaf(None) EXCEPT
                    !.background = Some(<<"gui", "/", "nope">>)])

\* a nested widget whose `from` is the local id of its sibling
SiblingTheme ==
    (<<"p">> :> Widget(None,
        (<<"x">> :> [Leaf(Some(<<"y">>)) EXCEPT !.pos = Some(<<1, 1>>)])
     @@ (<<"y">> :> [Leaf(None) EXCEPT !.size = Some(<<3, 4>>),
                                       !.pos = Some(<<5, 6>>)])))
 @@ (<<"q">> :> [Leaf(Some(<<"p">>)) EXCEPT !.align = Some("Center")])

\* two children maps with the same keys inside one widget
TwinTheme ==
    (<<"w">> :> Widget(None,
        (<<"p">> :> Widget(None, (<<"x">> :> Leaf(None))
                              @@ (<<"y">> :> Leaf(None))))
     @@ (<<"q">> :> Widget(None, (<<"x">> :> Leaf(None))
                              @@ (<<"y">> :> Leaf(None))))))

\* a definition without widgets
EmptyTheme == <<>>

\* a nested widget that refers to itself, below a widget that inherits a
\* child of the same local id
NestedSelfTheme ==
    (<<"a">> :> Widget(Some(<<"b">>),
        (<<"c">> :> Leaf(Some(<<"a", "/", "c">>)))))
 @@ (<<"b">> :> Widget(None,
        (<<"c">> :> [Leaf(None) EXCEPT !.size = Some(<<3, 4>>)])))

\* two top-level widgets that refer to each other, and one that refers to
\* a widget that does not exist
CycleUnknownTheme ==
    (<<"a">> :> Leaf(Some(<<"b">>)))
 @@ (<<"b">> :> Leaf(Some(<<"a">>)))
 @@ (<<"c">> :> Leaf(Some(<<"nope">>)))

FromChoices == {None, Some(<<"a">>), Some(<<"b">>), Some(<<"a", "/", "c">>),
                Some(<<"b", "/", "c">>)}

\* two top-level widgets with a child of the same local id, every widget
\* with a reference of FromChoices
GeneratedTheme(fa, fac, fb, fbc) ==
    (<<"a">> :> [Widget(fa, (<<"c">> :> [Leaf(fac) EXCEPT
                                            !.pos = Some(<<1, 1>>)]))
                    EXCEPT !.size = Some(<<1, 1>>)])
 @@ (<<"b">> :> [Widget(fb, (<<"c">> :> [Leaf(fbc) EXCEPT
                                            !.font = Some(<<"small">>)])
                         @@ (<<"d">> :> [Leaf(None) EXCEPT
                                            !.size = Some(<<2, 2>>)]))
                    EXCEPT !.text = Some(<<"b">>),
                           !.pos = Some(<<2, 2>>)])
GeneratedThemes ==
    {GeneratedTheme(fa, fac, fb, fbc) :
        fa \in FromChoices, fac \in FromChoices, fb \in FromChoices,
        fbc \in FromChoices}

\* the theme definitions the model is run on
Themes == {DocTheme, ChainTheme, CycleTheme, SelfTheme, UnknownTheme,
           UnknownTopTheme, OverrideTheme, ParentTheme, AncestorTheme,
           DescendantTheme, GrandchildTheme, FieldsTheme, LostTheme,
           CrossTheme, SlashTheme, SlashTopTheme, MissingImageTheme,
           MissingFontTheme, SiblingTheme, TwinTheme, EmptyTheme,
           NestedSelfTheme, CycleUnknownTheme}

\* the local ids used below the top level of a theme
RECURSIVE ChildIdsOf(_)
ChildIdsOf(def) ==
    (DOMAIN def.children)
    \cup UNION {ChildIdsOf(def.children[c]) : c \in DOMAIN def.children}
ChildIds(widgets) == UNION {ChildIdsOf(widgets[w]) : w \in DOMAIN widgets}

(***************************************************************************)
(* State.                                                                  *)
(***************************************************************************)
VARIABLES
    definition,     \* definition.widgets, the input of ThemeSet::new
    todo,           \* top-level widgets the build loop has not reached yet
    calls,          \* the calls of WidgetTheme::create that have not returned
    themes,         \* Vec<WidgetTheme>, the arena
    handle_index,   \* next handle to hand out
    theme_handles,  \* HashMap<String, WidgetThemeHandle>, the path index
    iteration,      \* passes of the resolution loop completed
    to_ids,         \* handles of this pass's snapshot still to be visited
    found_new,      \* a pending reference was seen in this pass
    pc,             \* "build", "loop", "pass", "done"
    result,         \* "none", "Ok", or the kind of the error returned
    log,            \* merges and clones performed by the last visit
    built           \* the arena and the index as the build loop left them

\* the locals of ThemeSet::new
theme_vars == <<definition, todo, calls, themes, handle_index, theme_handles,
                iteration, to_ids, found_new, pc, result, log, built>>

VARIABLES
    value,          \* the string handed to a deserializer's visit_str
    parsed,         \* None, or Some(what visit_str returned for value)
    anim,           \* None, or Some(an AnimState value held by a caller)
    anim_before,    \* anim as it was before the last operation on it
    anim_op         \* the last operation on anim and its arguments

\* the state of the AnimState operations
anim_vars == <<value, parsed, anim, anim_before, anim_op>>

VARIABLES
    warnings,       \* the messages written through log::warn!, in order
    query_ret       \* None, or Some(what the last find_font/find_image gave)

\* the state of the queries on a built store
query_vars == <<warnings, query_ret>>

VARIABLES
    image_defs,     \* set.images, the image definitions of one image set
    image_todo,     \* ids the first loop over set.images has not reached
    animated_images,\* Vec of the ids of the Animated images put aside
    images_in_set,  \* HashMap of the images of the set constructed so far
    image_call,     \* None, or Some(the arguments of the last Image::new)
    image_result,   \* "none", "Ok", or the kind of the error returned
    all_images      \* `images`, the images of all sets by qualified id

\* the state of the construction of an image set
image_vars == <<image_defs, image_todo, animated_images, images_in_set,
                image_call, image_result, all_images>>

vars == <<definition, todo, calls, themes, handle_index, theme_handles,
          iteration, to_ids, found_new, pc, result, log, built,
          value, parsed, anim, anim_before, anim_op,
          warnings, query_ret,
          image_defs, image_todo, animated_images, images_in_set, image_call,
          image_result, all_images>>

\* no query has been made
QueryIdle ==
    /\ warnings = <<>>
    /\ query_ret = <<>>

\* no image set is under construction
ImageIdle ==
    /\ image_defs = <<>>
    /\ image_todo = {}
    /\ animated_images = <<>>
    /\ images_in_set = <<>>
    /\ image_call = <<>>
    /\ image_result = "none"
    /\ all_images = <<>>

(***************************************************************************)
(* AnimState and its parser (theme_definition.rs).                         *)
(***************************************************************************)
\* the most tokens of an animation-state string that is parsed
MaxTokens == 5

\* enum AnimStateKey in the order of its declaration, which is the order of
\* the derived Ord
AnimStateKey == <<"Hover", "Pressed", "Disabled", "Normal", "Active">>

\* the position of a key in the derived order
KeyOrd(key) == CHOOSE i \in 1..Len(AnimStateKey) : AnimStateKey[i] = key

\* n copies of key
Repeat(key, n) == [i \in 1..n |-> key]

\* SortKeys with a slip: the keys are left as they are
SortKeysUnsorted(keys) == keys

\* keys.sort(): the keys in the derived order
SortKeys(keys) ==
    LET count(key) == Cardinality({i \in DOMAIN keys : keys[i] = key}) IN
    Repeat(AnimStateKey[1], count(AnimStateKey[1]))
    \o Repeat(AnimStateKey[2], count(AnimStateKey[2]))
    \o Repeat(AnimStateKey[3], count(AnimStateKey[3]))
    \o Repeat(AnimStateKey[4], count(AnimStateKey[4]))
    \o Repeat(AnimStateKey[5], count(AnimStateKey[5]))

\* struct AnimState { keys: [AnimStateKey; 4] }
AnimState(keys) == [keys |-> keys]

\* the constructors of impl AnimState
with_two(state1, state2) == AnimState(<<state1, state2, "Normal", "Normal">>)
with_three(state1, state2, state3) ==
    AnimState(<<state1, state2, state3, "Normal">>)
with_four(state1, state2, state3, state4) ==
    AnimState(<<state1, state2, state3, state4>>)
new(state) == AnimState(<<state, "Normal", "Normal", "Normal">>)
normal == AnimState(Repeat("Normal", 4))
pressed == AnimState([Repeat("Normal", 4) EXCEPT ![1] = "Pressed"])
hover == AnimState([Repeat("Normal", 4) EXCEPT ![1] = "Hover"])
disabled == AnimState([Repeat("Normal", 4) EXCEPT ![1] = "Disabled"])

\* AnimState::contains
contains(self, key) == \E i \in DOMAIN self.keys : self.keys[i] = key

\* AnimState::add: the first Normal slot takes the key, then the keys are
\* sorted
add(self, to_add) ==
    LET free == {i \in DOMAIN self.keys : self.keys[i] = "Normal"}
        first == CHOOSE i \in free : \A j \in free : i <= j
        keys == IF free = {} THEN self.keys
                ELSE [self.keys EXCEPT ![first] = to_add]
    IN  AnimState(SortKeys(keys))

\* str::split('+'): the pieces between the separators, empty ones included
RECURSIVE Split(_)
Split(s) ==
    IF \A i \in 1..Len(s) : s[i] # "+" THEN <<s>>
    ELSE LET i == CHOOSE i \in 1..Len(s) :
                      s[i] = "+" /\ \A j \in 1..(i - 1) : s[j] # "+"
         IN  <<SubSeq(s, 1, i - 1)>> \o Split(SubSeq(s, i + 1, Len(s)))

\* the characters str::trim takes for whitespace, the Unicode property
\* White_Space: space, tab, line feed, form feed, carriage return, and
\* U+000B, U+0085, U+00A0, U+1680 written as they are.  The other
\* characters of the property, U+2000 to U+200A, U+2028, U+2029, U+202F,
\* U+205F and U+3000, cannot be written in a string of a module and are
\* in no string of the model.
White_Space ==
    {" ", "\t", "\n", "\f", "\r", "", "", " ", " "}

\* str::trim_start and str::trim_end
RECURSIVE TrimStart(_)
TrimStart(s) ==
    IF s # <<>> /\ Head(s) \in White_Space THEN TrimStart(Tail(s)) ELSE s
RECURSIVE TrimEnd(_)
TrimEnd(s) ==
    IF s # <<>> /\ s[Len(s)] \in White_Space
    THEN TrimEnd(SubSeq(s, 1, Len(s) - 1))
    ELSE s

\* Trim with a slip: only the leading whitespace is removed
TrimStartOnly(s) == TrimStart(s)

\* str::trim
Trim(s) == TrimEnd(TrimStart(s))

\* what the parser carries through its loop, and what it returns: err is
\* "none" or the kind of the error, keys the array filled so far
ParseStart == [err |-> "none", keys |-> Repeat("Normal", 4),
               normal_found |-> FALSE]
ParseError(kind) == [err |-> kind, keys |-> <<>>, normal_found |-> FALSE]

\* add_if_not_already_present with a slip: only the slot before max_index is
\* compared
add_if_not_adjacent(acc, max_index, key) ==
    IF max_index >= 1 /\ acc.keys[max_index] = key
    THEN ParseError("Duplicate")
    ELSE [acc EXCEPT !.keys[max_index + 1] = key]

\* add_if_not_already_present (theme_definition.rs:255-263); max_index
\* counts from 0
add_if_not_already_present(acc, max_index, key) ==
    IF \E i \in 1..max_index : acc.keys[i] = key
    THEN ParseError("Duplicate")
    ELSE [acc EXCEPT !.keys[max_index + 1] = key]

\* VisitToken with a slip: Normal is not required to be the first token
VisitTokenNormalAnywhere(acc, key_index, token) ==
    IF key_index >= Len(acc.keys) THEN ParseError("TooMany")
    ELSE IF acc.normal_found THEN ParseError("NormalNotSole")
    ELSE
    LET key_id == Trim(token) IN
    IF key_id = <<"Normal">>
    THEN [acc EXCEPT !.normal_found = TRUE]
    ELSE IF key_id \in {<<"Hover">>, <<"Pressed">>, <<"Disabled">>,
                        <<"Active">>}
    THEN add_if_not_already_present(acc, key_index, key_id[1])
    ELSE ParseError("Unknown")

\* the body of the loop of visit_str (theme_definition.rs:214-242) for the
\* token at key_index, which counts from 0
VisitToken(acc, key_index, token) ==
    IF key_index >= Len(acc.keys) THEN ParseError("TooMany")
    ELSE IF acc.normal_found THEN ParseError("NormalNotSole")
    ELSE
    LET key_id == Trim(token) IN
    IF key_id = <<"Normal">>
    THEN IF key_index # 0 THEN ParseError("NormalNotSole")
         ELSE [acc EXCEPT !.normal_found = TRUE]
    ELSE IF key_id \in {<<"Hover">>, <<"Pressed">>, <<"Disabled">>,
                        <<"Active">>}
    THEN add_if_not_already_present(acc, key_index, key_id[1])
    ELSE ParseError("Unknown")

\* the loop of visit_str over the tokens from key_index on
RECURSIVE VisitLoop(_, _, _)
VisitLoop(acc, key_index, tokens) ==
    IF key_index = Len(tokens) THEN acc
    ELSE LET next == VisitToken(acc, key_index, tokens[key_index + 1])
         IN  IF next.err # "none" THEN next
             ELSE VisitLoop(next, key_index + 1, tokens)

\* AnimStateVisitor::visit_str: [err, state], state being the AnimState of
\* Ok(..)
visit_str(string) ==
    LET acc == VisitLoop(ParseStart, 0, Split(string)) IN
    IF acc.err # "none" THEN [err |-> acc.err, state |-> normal]
    ELSE [err |-> "none", state |-> AnimState(SortKeys(acc.keys))]

\* the words a token of an input string is made of: the five keys, a word
\* that is no key, and nothing
Words == {<<"Hover">>, <<"Pressed">>, <<"Disabled">>, <<"Normal">>,
          <<"Active">>, <<"Bogus">>, <<>>}

\* the whitespace put before and after a word: nothing or a blank
Pads == [l : {<<>>, <<" ">>}, r : {<<>>, <<" ">>}]

\* those, and a tab before the word with a line feed and a blank after it
WidePads == Pads \cup {[l |-> <<"\t">>, r |-> <<"\n", " ">>]}

\* the string of the words ws, the i-th padded by pads[i], joined by '+'
RECURSIVE MkValue(_, _)
MkValue(ws, pads) ==
    IF ws = <<>> THEN <<>>
    ELSE LET token == Head(pads).l \o Head(ws) \o Head(pads).r
         IN  IF Len(ws) = 1 THEN token
             ELSE token \o <<"+">> \o MkValue(Tail(ws), Tail(pads))

\* the strings the parser is run on: up to max words, all padded alike
Inputs(max) ==
    {MkValue(ws, [i \in DOMAIN ws |-> pad]) :
        ws \in UNION {[1..n -> Words] : n \in 1..max}, pad \in WidePads}

\* impl Serialize for AnimState, theme_definition.rs:271-294: a '+' before
\* every key but the first, and the name of every key but Normal
serialize(self) ==
    LET piece(i) == (IF i = 1 THEN <<>> ELSE <<"+">>)
                    \o (IF self.keys[i] = "Normal" THEN <<>>
                        ELSE <<self.keys[i]>>)
    IN  piece(1) \o piece(2) \o piece(3) \o piece(4)

\* no AnimState operation is under way
AnimIdle ==
    /\ value = <<>>
    /\ parsed = None
    /\ anim = None
    /\ anim_before = None
    /\ anim_op = <<>>

\* ThemeSet::new is not under way
ThemeIdle ==
    /\ definition = <<>>
    /\ todo = {}
    /\ calls = <<>>
    /\ themes = <<>>
    /\ handle_index = 0
    /\ theme_handles = <<>>
    /\ iteration = 0
    /\ to_ids = {}
    /\ found_new = FALSE
    /\ pc = "idle"
    /\ result = "none"
    /\ log = <<>>
    /\ built = [themes |-> <<>>, handle_index |-> 0, theme_handles |-> <<>>]

(***************************************************************************)
(* Color and its parser (theme_definition.rs).                             *)
(***************************************************************************)
\* the most characters after the '#' of a color string that is parsed
MaxHexLen == 6

\* the hexadecimal digits in the order of their values, lower and upper case
LowerHex == <<"0", "1", "2", "3", "4", "5", "6", "7", "8", "9",
              "a", "b", "c", "d", "e", "f">>
UpperHex == <<"0", "1", "2", "3", "4", "5", "6", "7", "8", "9",
              "A", "B", "C", "D", "E", "F">>
HexDigits == {LowerHex[i] : i \in 1..16} \cup {UpperHex[i] : i \in 1..16}

\* char::to_digit(16) of a hexadecimal digit
HexValue(c) ==
    IF \E i \in 1..16 : LowerHex[i] = c
    THEN (CHOOSE i \in 1..16 : LowerHex[i] = c) - 1
    ELSE (CHOOSE i \in 1..16 : UpperHex[i] = c) - 1

\* the length in bytes of a character: the one character of the inputs that
\* is not ASCII takes two
Utf8Len(c) == IF c = "é" THEN 2 ELSE 1

\* str::len, the length in bytes
RECURSIVE ByteLen(_)
ByteLen(s) == IF s = <<>> THEN 0 ELSE Utf8Len(Head(s)) + ByteLen(Tail(s))

\* the value of a string of hexadecimal digits
RECURSIVE HexNumber(_)
HexNumber(digits) ==
    IF digits = <<>> THEN 0
    ELSE 16 * HexNumber(SubSeq(digits, 1, Len(digits) - 1))
         + HexValue(digits[Len(digits)])

\* u8::from_str_radix(input, 16): an optional '+' and then digits; [err, c]
from_str_radix(input) ==
    IF input = <<>> THEN [err |-> "Component", c |-> 0]
    ELSE IF Len(input) = 1 /\ input[1] \in {"+", "-"}
    THEN [err |-> "Component", c |-> 0]
    ELSE LET digits == IF input[1] = "+" THEN Tail(input) ELSE input IN
         IF \E i \in 1..Len(digits) : digits[i] \notin HexDigits
         THEN [err |-> "Component", c |-> 0]
         ELSE IF HexNumber(digits) > 255 THEN [err |-> "Component", c |-> 0]
         ELSE [err |-> "none", c |-> HexNumber(digits)]

\* hex_str_to_color_component (theme_definition.rs:516-522)
hex_str_to_color_component(input) == from_str_radix(input)

\* struct Color and the result of its parser: err is "none" or the kind of
\* the error
Color(r, g, b) == [r |-> r, g |-> g, b |-> b]
ColorOk(color) == [err |-> "none", color |-> color]
ColorError(kind) == [err |-> kind, color |-> Color(0, 0, 0)]

\* the named colors of impl Color
white == Color(255, 255, 255)
black == Color(0, 0, 0)
red == Color(255, 0, 0)
green == Color(0, 255, 255)
blue == Color(0, 0, 255)
cyan == Color(0, 255, 255)
yellow == Color(255, 255, 0)
magenta == Color(255, 255, 255)

\* the names the parser knows, as strings
ColorNames ==
    (<<"w", "h", "i", "t", "e">> :> white)
 @@ (<<"b", "l", "a", "c", "k">> :> black)
 @@ (<<"r", "e", "d">> :> red)
 @@ (<<"g", "r", "e", "e", "n">> :> green)
 @@ (<<"b", "l", "u", "e">> :> blue)
 @@ (<<"c", "y", "a", "n">> :> cyan)
 @@ (<<"y", "e", "l", "l", "o", "w">> :> yellow)
 @@ (<<"m", "a", "g", "e", "n", "t", "a">> :> magenta)

\* HexColor with a slip: the components are not multiplied
HexColorUnscaled(string, width, scale) ==
    LET r == hex_str_to_color_component(SubSeq(string, 2, 1 + width))
        g == hex_str_to_color_component(
                 SubSeq(string, 2 + width, 1 + 2 * width))
        b == hex_str_to_color_component(
                 SubSeq(string, 2 + 2 * width, 1 + 3 * width))
    IN  IF r.err # "none" THEN ColorError(r.err)
        ELSE IF g.err # "none" THEN ColorError(g.err)
        ELSE IF b.err # "none" THEN ColorError(b.err)
        ELSE ColorOk(Color(r.c, g.c, b.c))

\* the three components of a color string whose components are `width`
\* characters wide and are multiplied by `scale` (u8, so modulo 256)
HexColor(string, width, scale) ==
    LET r == hex_str_to_color_component(SubSeq(string, 2, 1 + width))
        g == hex_str_to_color_component(
                 SubSeq(string, 2 + width, 1 + 2 * width))
        b == hex_str_to_color_component(
                 SubSeq(string, 2 + 2 * width, 1 + 3 * width))
    IN  IF r.err # "none" THEN ColorError(r.err)
        ELSE IF g.err # "none" THEN ColorError(g.err)
        ELSE IF b.err # "none" THEN ColorError(b.err)
        ELSE ColorOk(Color((r.c * scale) % 256, (g.c * scale) % 256,
                           (b.c * scale) % 256))

\* ColorVisitor::visit_str (theme_definition.rs:476-513)
ColorVisitor_visit_str(string) ==
    IF string # <<>> /\ string[1] = "#"
    THEN LET count == Len(string) IN
         IF ByteLen(string) # count THEN ColorError("HexCode")
         ELSE IF count = 4 THEN HexColor(string, 1, 17)
         ELSE IF count = 7 THEN HexColor(string, 2, 1)
         ELSE ColorError("HexCode")
    ELSE IF string \in DOMAIN ColorNames THEN ColorOk(ColorNames[string])
    ELSE ColorError("Name")

\* format!("{:x?}", c) of a u8: lower-case hexadecimal digits, no padding
FormatLowerHex(c) ==
    IF c < 16 THEN <<LowerHex[c + 1]>>
    ELSE <<LowerHex[(c \div 16) + 1], LowerHex[(c % 16) + 1]>>

\* impl Serialize for Color (theme_definition.rs:530-534)
Color_serialize(self) ==
    <<"#">> \o FormatLowerHex(self.r) \o FormatLowerHex(self.g)
            \o FormatLowerHex(self.b)

\* the characters the strings after a '#' are made of: hexadecimal digits of
\* both cases, the signs, a letter that is no digit and a character that is
\* not ASCII
HexChars == {"1", "f", "C", "+", "-", "g", "é"}

\* the strings the color parser is run on: '#' and up to max of the
\* characters above, '#' and three hexadecimal digits of any kind, the names
\* and two strings that are neither
ColorInputs(max) ==
    {<<"#">> \o s : s \in UNION {[1..n -> HexChars] : n \in 0..max}}
    \cup {<<"#">> \o s : s \in [1..3 -> HexDigits]}
    \cup DOMAIN ColorNames
    \cup {<<>>, <<"1", "f", "C">>, <<"W", "h", "i", "t", "e">>}

(***************************************************************************)
(* WidgetTheme::create                                                     *)
(***************************************************************************)
\* the WidgetTheme value built at theme.rs:302-325
WidgetTheme(def, parent_handle, handle, id, full_id, font, background, foreground) ==
    [from |-> def.from,
     parent_handle |-> parent_handle,
     handle |-> handle,
     id |-> id,
     full_id |-> full_id,
     text |-> def.text,
     text_color |-> def.text_color,
     font |-> font,
     background |-> background,
     foreground |-> foreground,
     wants_mouse |-> def.wants_mouse,
     text_align |-> def.text_align,
     pos |-> def.pos,
     size |-> def.size,
     width_from |-> def.width_from,
     height_from |-> def.height_from,
     align |-> def.align,
     child_align |-> def.child_align,
     border |-> def.border,
     layout |-> def.layout,
     layout_spacing |-> def.layout_spacing,
     children |-> <<>>]

\* Lookup with a slip: the handle found is dropped
LookupDropped(table, name) == None

\* images.get(name) / fonts.get(name) for an optional name
Lookup(table, name) == IF name = None THEN None ELSE Some(table[Unwrap(name)])
Missing(table, name) == IsSome(name) /\ Unwrap(name) \notin DOMAIN table

\* CreateBegin with a slip: the full id is the local id at every depth
CreateBeginFullIdLocal(st, parent_id, parent_handle, id, def, images, fonts) ==
    IF ContainsSlash(id) THEN [st EXCEPT !.err = "ErrName"]
    ELSE
    LET full == id IN
    IF Missing(images, def.background) THEN [st EXCEPT !.err = "ErrImage"]
    ELSE IF Missing(images, def.foreground) THEN [st EXCEPT !.err = "ErrImage"]
    ELSE IF Missing(fonts, def.font) THEN [st EXCEPT !.err = "ErrFont"]
    ELSE
    LET handle == st.handle_index
        theme == WidgetTheme(def, parent_handle, handle, id, full,
                             Lookup(fonts, def.font),
                             Lookup(images, def.background),
                             Lookup(images, def.foreground))
    IN  [st EXCEPT !.handle_index = handle + 1,
                   !.themes = Append(st.themes, theme),
                   !.ret = handle]

\* theme.rs:262-326, WidgetTheme::create up to themes.push(theme): the
\* check of the id, the full id, the lookups, the handle and the record.
\* st is [themes, handle_index, theme_handles, err, ret, ...]; an error
\* returns before anything is written; st.ret is the handle of the record
CreateBegin(st, parent_id, parent_handle, id, def, images, fonts) ==
    IF ContainsSlash(id) THEN [st EXCEPT !.err = "ErrName"]
    ELSE
    LET full == IF parent_id = <<>> THEN id ELSE Join(parent_id, id) IN
    IF Missing(images, def.background) THEN [st EXCEPT !.err = "ErrImage"]
    ELSE IF Missing(images, def.foreground) THEN [st EXCEPT !.err = "ErrImage"]
    ELSE IF Missing(fonts, def.font) THEN [st EXCEPT !.err = "ErrFont"]
    ELSE
    LET handle == st.handle_index
        theme == WidgetTheme(def, parent_handle, handle, id, full,
                             Lookup(fonts, def.font),
                             Lookup(images, def.background),
                             Lookup(images, def.foreground))
    IN  [st EXCEPT !.handle_index = handle + 1,
                   !.themes = Append(st.themes, theme),
                   !.ret = handle]

\* a call of create that has pushed its record and now runs the loop at
\* theme.rs:329-343: its handle, its full id (the local `parent_id` of
\* theme.rs:268), its definition, the keys of def.children the loop has
\* still to take, in the order in which the map is iterated, and the local
\* `children`
Call(st, def, keys) ==
    [handle |-> st.ret, parent_id |-> At(st.themes, st.ret).full_id,
     def |-> def, keys |-> keys, children |-> <<>>]

\* theme.rs:345-349, the end of create: the children are listed in the
\* record and the record is entered in the index; st.ret is the handle
\* returned
CreateEnd(st, call) ==
    [st EXCEPT !.themes[call.handle + 1].children = call.children,
               !.theme_handles = Insert(st.theme_handles, call.parent_id,
                                        call.handle),
               !.ret = call.handle]

(***************************************************************************)
(* merge_from and add_children_recursive                                   *)
(***************************************************************************)
\* the first handle of children whose record has the local id `id`, if any
\* (the inner loops at theme.rs:390-396 and 416-422)
RECURSIVE FindChild(_, _, _)
FindChild(ts, children, id) ==
    IF children = <<>> THEN None
    ELSE IF At(ts, Head(children)).id = id THEN Some(Head(children))
    ELSE FindChild(ts, Tail(children), id)

\* MergeFields with a slip: the source's size replaces the destination's
MergeFieldsSizeFromSource(to, from) ==
    [to EXCEPT
        !.from = from.from,
        !.wants_mouse = IF to.wants_mouse = None THEN from.wants_mouse ELSE @,
        !.font = IF to.font = None THEN from.font ELSE @,
        !.background = IF to.background = None THEN from.background ELSE @,
        !.foreground = IF to.foreground = None THEN from.foreground ELSE @,
        !.text_align = IF to.text_align = None THEN from.text_align ELSE @,
        !.pos = IF to.pos = None THEN from.pos ELSE @,
        !.size = IF from.size # None THEN from.size ELSE @,
        !.width_from = IF to.width_from = None THEN from.width_from ELSE @,
        !.height_from = IF to.height_from = None THEN from.height_from ELSE @,
        !.border = IF to.border = None THEN from.border ELSE @,
        !.align = IF to.align = None THEN from.align ELSE @,
        !.child_align = IF to.child_align = None THEN from.child_align ELSE @,
        !.layout = IF to.layout = None THEN from.layout ELSE @,
        !.layout_spacing = IF to.layout_spacing = None THEN from.layout_spacing ELSE @]

\* MergeFields with a slip: the test of pos is inverted
MergeFieldsPosInverted(to, from) ==
    [to EXCEPT
        !.from = from.from,
        !.wants_mouse = IF to.wants_mouse = None THEN from.wants_mouse ELSE @,
        !.font = IF to.font = None THEN from.font ELSE @,
        !.background = IF to.background = None THEN from.background ELSE @,
        !.foreground = IF to.foreground = None THEN from.foreground ELSE @,
        !.text_align = IF to.text_align = None THEN from.text_align ELSE @,
        !.pos = IF to.pos # None THEN from.pos ELSE @,
        !.size = IF to.size = None THEN from.size ELSE @,
        !.width_from = IF to.width_from = None THEN from.width_from ELSE @,
        !.height_from = IF to.height_from = None THEN from.height_from ELSE @,
        !.border = IF to.border = None THEN from.border ELSE @,
        !.align = IF to.align = None THEN from.align ELSE @,
        !.child_align = IF to.child_align = None THEN from.child_align ELSE @,
        !.layout = IF to.layout = None THEN from.layout ELSE @,
        !.layout_spacing = IF to.layout_spacing = None THEN from.layout_spacing ELSE @]

\* theme.rs:367-382: the reference and the scalar fields of `to` after the
\* merge from `from`
MergeFields(to, from) ==
    [to EXCEPT
        !.from = from.from,
        !.wants_mouse = IF to.wants_mouse = None THEN from.wants_mouse ELSE @,
        !.font = IF to.font = None THEN from.font ELSE @,
        !.background = IF to.background = None THEN from.background ELSE @,
        !.foreground = IF to.foreground = None THEN from.foreground ELSE @,
        !.text_align = IF to.text_align = None THEN from.text_align ELSE @,
        !.pos = IF to.pos = None THEN from.pos ELSE @,
        !.size = IF to.size = None THEN from.size ELSE @,
        !.width_from = IF to.width_from = None THEN from.width_from ELSE @,
        !.height_from = IF to.height_from = None THEN from.height_from ELSE @,
        !.border = IF to.border = None THEN from.border ELSE @,
        !.align = IF to.align = None THEN from.align ELSE @,
        !.child_align = IF to.child_align = None THEN from.child_align ELSE @,
        !.layout = IF to.layout = None THEN from.layout ELSE @,
        !.layout_spacing = IF to.layout_spacing = None THEN from.layout_spacing ELSE @]

RECURSIVE AddChildrenRecursive(_, _, _)
RECURSIVE AddChildrenLoop(_, _, _, _)
RECURSIVE MergeFrom(_, _, _)
RECURSIVE MergeChildrenLoop(_, _, _)
RECURSIVE CloneChildrenLoop(_, _, _, _)

\* the handles in the children list of record h
ChildrenOf(ts, h) == {At(ts, h).children[i] : i \in 1..Len(At(ts, h).children)}

\* the handles reached from the handles hs through children lists
RECURSIVE Reach(_, _)
Reach(ts, hs) ==
    LET more == hs \cup UNION {ChildrenOf(ts, h) : h \in hs} IN
    IF more = hs THEN hs ELSE Reach(ts, more)

\* the records below record h: its children, their children and so on
Below(ts, h) == Reach(ts, ChildrenOf(ts, h))

\* AddChildrenRecursive with a slip: the clone does not keep the pending
\* reference of the record it is cloned from
AddChildrenRecursiveFromDropped(st, from_id, to_id) ==
    IF st.overflow \/ to_id \in Below(st.themes, from_id)
    THEN [st EXCEPT !.overflow = TRUE]
    ELSE
    LET from == At(st.themes, from_id)
        to == At(st.themes, to_id)
        handle == st.handle_index
        full_id == Join(to.full_id, from.id)
        from_children == from.children
        clone == [from EXCEPT !.full_id = full_id,
                              !.handle = handle,
                              !.parent_handle = Some(to_id),
                              !.children = <<>>,
                              !.from = None]
        st1 == [st EXCEPT
                  !.handle_index = handle + 1,
                  !.themes = Append([st.themes EXCEPT
                                        ![to_id + 1].children = Append(@, handle)],
                                    clone),
                  !.theme_handles = Insert(st.theme_handles, full_id, handle),
                  !.log = Append(st.log, [op |-> "clone", from_id |-> from_id,
                                          to_id |-> to_id, handle |-> handle,
                                          from |-> from, to |-> to,
                                          merged |-> clone])]
    IN  AddChildrenLoop(st1, from_children, handle, full_id)

\* AddChildrenRecursive with a slip: the clone keeps the handle of the
\* record it is cloned from
AddChildrenRecursiveHandleKept(st, from_id, to_id) ==
    IF st.overflow \/ to_id \in Below(st.themes, from_id)
    THEN [st EXCEPT !.overflow = TRUE]
    ELSE
    LET from == At(st.themes, from_id)
        to == At(st.themes, to_id)
        handle == st.handle_index
        full_id == Join(to.full_id, from.id)
        from_children == from.children
        clone == [from EXCEPT !.full_id = full_id,
                              !.parent_handle = Some(to_id),
                              !.children = <<>>]
        st1 == [st EXCEPT
                  !.handle_index = handle + 1,
                  !.themes = Append([st.themes EXCEPT
                                        ![to_id + 1].children = Append(@, handle)],
                                    clone),
                  !.theme_handles = Insert(st.theme_handles, full_id, handle),
                  !.log = Append(st.log, [op |-> "clone", from_id |-> from_id,
                                          to_id |-> to_id, handle |-> handle,
                                          from |-> from, to |-> to,
                                          merged |-> clone])]
    IN  AddChildrenLoop(st1, from_children, handle, full_id)

\* AddChildrenRecursive with a slip: a shallow copy, the clone lists the
\* children of the record it is cloned from
AddChildrenRecursiveShallow(st, from_id, to_id) ==
    IF st.overflow \/ to_id \in Below(st.themes, from_id)
    THEN [st EXCEPT !.overflow = TRUE]
    ELSE
    LET from == At(st.themes, from_id)
        to == At(st.themes, to_id)
        handle == st.handle_index
        full_id == Join(to.full_id, from.id)
        from_children == from.children
        clone == [from EXCEPT !.full_id = full_id,
                              !.handle = handle,
                              !.parent_handle = Some(to_id)]
        st1 == [st EXCEPT
                  !.handle_index = handle + 1,
                  !.themes = Append([st.themes EXCEPT
                                        ![to_id + 1].children = Append(@, handle)],
                                    clone),
                  !.theme_handles = Insert(st.theme_handles, full_id, handle),
                  !.log = Append(st.log, [op |-> "clone", from_id |-> from_id,
                                          to_id |-> to_id, handle |-> handle,
                                          from |-> from, to |-> to,
                                          merged |-> clone])]
    IN  st1

\* theme.rs:437-471.  The call clones the subtree of from_id below to_id,
\* taking the children of each record as they are when its turn comes.
\* When to_id lies below from_id the clone is added to the subtree that is
\* being cloned, each call finds one more record to clone and none returns:
\* the process runs out of stack, which is st.overflow.  In every other
\* case the call returns.
AddChildrenRecursive(st, from_id, to_id) ==
    IF st.overflow \/ to_id \in Below(st.themes, from_id)
    THEN [st EXCEPT !.overflow = TRUE]
    ELSE
    LET from == At(st.themes, from_id)
        to == At(st.themes, to_id)
        handle == st.handle_index
        full_id == Join(to.full_id, from.id)
        from_children == from.children
        clone == [from EXCEPT !.full_id = full_id,
                              !.handle = handle,
                              !.parent_handle = Some(to_id),
                              !.children = <<>>]
        st1 == [st EXCEPT
                  !.handle_index = handle + 1,
                  !.themes = Append([st.themes EXCEPT
                                        ![to_id + 1].children = Append(@, handle)],
                                    clone),
                  !.theme_handles = Insert(st.theme_handles, full_id, handle),
                  !.log = Append(st.log, [op |-> "clone", from_id |-> from_id,
                                          to_id |-> to_id, handle |-> handle,
                                          from |-> from, to |-> to,
                                          merged |-> clone])]
    IN  AddChildrenLoop(st1, from_children, handle, full_id)

\* AddChildrenLoop with a slip: a shallow copy, the children of the source
\* are not cloned
AddChildrenLoopShallow(st, from_children, handle, full_id) == st

\* the loop at theme.rs:464-470
AddChildrenLoop(st, from_children, handle, full_id) ==
    IF from_children = <<>> \/ st.overflow THEN st
    ELSE
    LET from_child == Head(from_children)
        st1 == [st EXCEPT !.themes[from_child + 1].full_id =
                              Join(full_id, At(st.themes, from_child).id)]
    IN  AddChildrenLoop(AddChildrenRecursive(st1, from_child, handle),
                        Tail(from_children), handle, full_id)

\* theme.rs:353-435
MergeFrom(st, from_id, to_id) ==
    LET from == At(st.themes, from_id)
        from_children == from.children
        to == At(st.themes, to_id)
        to_children == to.children
        merged == MergeFields(to, from)
        st1 == [st EXCEPT
                  !.themes[to_id + 1] = merged,
                  !.log = Append(st.log, [op |-> "merge", from_id |-> from_id,
                                          to_id |-> to_id, handle |-> to_id,
                                          from |-> from, to |-> to,
                                          merged |-> merged])]
        st2 == MergeChildrenLoop(st1, to_children, from_children)
    IN  CloneChildrenLoop(st2, from_children, to_children, to_id)

\* the loop at theme.rs:384-408
MergeChildrenLoop(st, to_children, from_children) ==
    IF to_children = <<>> \/ st.overflow THEN st
    ELSE
    LET child_id == Head(to_children)
        merge == FindChild(st.themes, from_children, At(st.themes, child_id).id)
        st1 == IF IsSome(merge) THEN MergeFrom(st, Unwrap(merge), child_id) ELSE st
    IN  MergeChildrenLoop(st1, Tail(to_children), from_children)

\* CloneChildrenLoop with a slip: a child of the source is cloned whether or
\* not the destination has a child of that local id
CloneChildrenLoopAll(st, from_children, to_children, to_id) ==
    IF from_children = <<>> \/ st.overflow THEN st
    ELSE
    LET from_child_id == Head(from_children)
        st1 == AddChildrenRecursive(st, from_child_id, to_id)
    IN  CloneChildrenLoop(st1, Tail(from_children), to_children, to_id)

\* the loop at theme.rs:410-434
CloneChildrenLoop(st, from_children, to_children, to_id) ==
    IF from_children = <<>> \/ st.overflow THEN st
    ELSE
    LET from_child_id == Head(from_children)
        found == IsSome(FindChild(st.themes, to_children,
                                  At(st.themes, from_child_id).id))
        st1 == IF ~found THEN AddChildrenRecursive(st, from_child_id, to_id) ELSE st
    IN  CloneChildrenLoop(st1, Tail(from_children), to_children, to_id)

(***************************************************************************)
(* ThemeSet::new: the build loop and the resolution loop.                  *)
(***************************************************************************)
\* the mutable locals of ThemeSet::new as the record the operators work on
Locals == [themes |-> themes, handle_index |-> handle_index,
           theme_handles |-> theme_handles, found_new |-> found_new,
           err |-> "none", ret |-> 0, overflow |-> FALSE, log |-> <<>>]

\* ResolveOne with a slip: found_new is set before the record is looked at
ResolveOneFoundFirst(st, to_id) ==
    LET from == At(st.themes, to_id).from
        st1 == [st EXCEPT !.found_new = TRUE]
    IN  IF from = None THEN st1
        ELSE
        LET from_str == Unwrap(from) IN
        IF from_str \notin DOMAIN st.theme_handles
        THEN [st1 EXCEPT !.err = "ErrInvalidFrom"]
        ELSE
        LET from_id == st.theme_handles[from_str] IN
        IF IsSome(At(st.themes, from_id).from) THEN st1
        ELSE MergeFrom([st1 EXCEPT !.themes[to_id + 1].from = None],
                       from_id, to_id)

\* ResolveOne with a slip: the source is merged whether or not its own
\* reference is still pending
ResolveOneNoSkip(st, to_id) ==
    LET from == At(st.themes, to_id).from IN
    IF from = None THEN st
    ELSE
    LET from_str == Unwrap(from)
        st1 == [st EXCEPT !.found_new = TRUE]
    IN  IF from_str \notin DOMAIN st.theme_handles
        THEN [st1 EXCEPT !.err = "ErrInvalidFrom"]
        ELSE
        LET from_id == st.theme_handles[from_str] IN
        MergeFrom([st1 EXCEPT !.themes[to_id + 1].from = None],
                  from_id, to_id)

\* theme.rs:121-148, the body of `for to_id in to_ids.iter()` for one to_id
ResolveOne(st, to_id) ==
    LET from == At(st.themes, to_id).from IN
    IF from = None THEN st
    ELSE
    LET from_str == Unwrap(from)
        st1 == [st EXCEPT !.found_new = TRUE]
    IN  IF from_str \notin DOMAIN st.theme_handles
        THEN [st1 EXCEPT !.err = "ErrInvalidFrom"]
        ELSE
        LET from_id == st.theme_handles[from_str] IN
        IF IsSome(At(st.themes, from_id).from) THEN st1
        ELSE MergeFrom([st1 EXCEPT !.themes[to_id + 1].from = None],
                       from_id, to_id)

\* `for to_id in to_ids.iter()` with the `None => continue` of theme.rs:123.
\* A visit of a record without a pending reference changes nothing, whenever
\* in the pass it happens.  A record of the snapshot can only get a reference
\* during the pass by a recursive merge below a record that is itself still
\* to be visited with a pending reference, so the handles that have no
\* reference and no such ancestor are skipped by the loop wherever they come
\* in the order: they are taken out of the handles still to be visited.
RECURSIVE HasPendingAncestorIn(_, _, _)
HasPendingAncestorIn(ts, ids, h) ==
    LET p == At(ts, h).parent_handle IN
    /\ IsSome(p)
    /\ \/ Unwrap(p) \in ids /\ IsSome(At(ts, Unwrap(p)).from)
       \/ HasPendingAncestorIn(ts, ids, Unwrap(p))
Remaining(ts, ids) ==
    {h \in ids : IsSome(At(ts, h).from) \/ HasPendingAncestorIn(ts, ids, h)}

InitOn(inputs) ==
    /\ definition \in inputs
    /\ todo = DOMAIN definition
    /\ calls = <<>>
    /\ themes = <<>>
    /\ handle_index = 0
    /\ theme_handles = <<>>
    /\ iteration = 0
    /\ to_ids = {}
    /\ found_new = FALSE
    /\ pc = "build"
    /\ result = "none"
    /\ log = <<>>
    /\ built = [themes |-> <<>>, handle_index |-> 0, theme_handles |-> <<>>]
    /\ AnimIdle
    /\ QueryIdle
    /\ ImageIdle

\* ThemeSet::new is entered with one of the themes written out above
Init == InitOn(Themes)

\* ThemeSet::new is entered with one of those or with a generated theme
InitAll == InitOn(Themes \cup GeneratedThemes)

\* theme.rs:91-103, `for (theme_id, theme) in definition.widgets` takes a
\* widget and calls create, which runs up to the push of its record
\* (theme.rs:262-326); keys is the order in which def.children will be
\* iterated.  An error is returned through the `?` of theme.rs:102.
CreateWidget(theme_id, keys) ==
    /\ pc = "build"
    /\ calls = <<>>
    /\ theme_id \in todo
    /\ LET def == definition[theme_id]
           st == CreateBegin(Locals, <<>>, None, theme_id, def,
                             ImageTable, FontTable)
       IN  IF st.err # "none"
           THEN /\ pc' = "done"
                /\ result' = st.err
                /\ UNCHANGED <<themes, handle_index, calls, todo>>
           ELSE /\ themes' = st.themes
                /\ handle_index' = st.handle_index
                /\ calls' = <<Call(st, def, keys)>>
                /\ todo' = todo \ {theme_id}
                /\ UNCHANGED <<pc, result>>
    /\ UNCHANGED <<definition, theme_handles, iteration, to_ids, found_new,
                   log, built>>
    /\ UNCHANGED <<anim_vars, query_vars, image_vars>>

\* the call of create that runs: the last one entered
Top == calls[Len(calls)]

\* the orders in which the children map of the next child of the running
\* call can be iterated
ChildKeyOrders ==
    IF calls = <<>> \/ Top.keys = <<>> THEN {}
    ELSE Orders(DOMAIN Top.def.children[Head(Top.keys)].children)

\* theme.rs:330-341, one iteration of `for (child_id, child_def) in
\* def.children`: create is called for the child and runs up to the push
\* of its record.  An error is returned through the `?` of every call
\* that has not returned; the records pushed so far stay in the arena,
\* not listed by their parents and not in the index.
CreateChild(keys) ==
    /\ pc = "build"
    /\ calls # <<>>
    /\ Top.keys # <<>>
    /\ LET child_id == Head(Top.keys)
           child_def == Top.def.children[child_id]
           st == CreateBegin(Locals, Top.parent_id, Some(Top.handle),
                             child_id, child_def, ImageTable, FontTable)
       IN  IF st.err # "none"
           THEN /\ pc' = "done"
                /\ result' = st.err
                /\ calls' = <<>>
                /\ UNCHANGED <<themes, handle_index>>
           ELSE /\ themes' = st.themes
                /\ handle_index' = st.handle_index
                /\ calls' = Append([calls EXCEPT ![Len(calls)].keys = Tail(@)],
                                   Call(st, child_def, keys))
                /\ UNCHANGED <<pc, result>>
    /\ UNCHANGED <<definition, todo, theme_handles, iteration, to_ids,
                   found_new, log, built>>
    /\ UNCHANGED <<anim_vars, query_vars, image_vars>>

\* theme.rs:345-349 and 342: the loop of the running call has taken every
\* child; the call lists its children, enters itself in the index and
\* returns its handle, which its caller pushes to its own `children`
CreateReturn ==
    /\ pc = "build"
    /\ calls # <<>>
    /\ Top.keys = <<>>
    /\ LET st == CreateEnd(Locals, Top)
           callers == SubSeq(calls, 1, Len(calls) - 1)
       IN  /\ themes' = st.themes
           /\ theme_handles' = st.theme_handles
           /\ calls' = IF callers = <<>> THEN <<>>
                       ELSE [callers EXCEPT ![Len(callers)].children =
                                                Append(@, st.ret)]
    /\ UNCHANGED <<definition, todo, handle_index, iteration, to_ids,
                   found_new, pc, result, log, built>>
    /\ UNCHANGED <<anim_vars, query_vars, image_vars>>

\* theme.rs:91-108, `for (theme_id, theme) in definition.widgets` has taken
\* every widget (none, when the map is empty) and the resolution loop is
\* entered
EndBuild ==
    /\ pc = "build"
    /\ todo = {}
    /\ calls = <<>>
    /\ pc' = "loop"
    /\ built' = [themes |-> themes, handle_index |-> handle_index,
                 theme_handles |-> theme_handles]
    /\ UNCHANGED <<definition, todo, calls, themes, handle_index,
                   theme_handles, iteration, to_ids, found_new, result, log>>
    /\ UNCHANGED <<anim_vars, query_vars, image_vars>>

\* theme.rs:110-119, the head of a pass
BeginPass ==
    /\ pc = "loop"
    /\ IF iteration = MAX_ITERATIONS
       THEN /\ pc' = "done"
            /\ result' = "ErrCircular"
            /\ UNCHANGED <<to_ids, found_new>>
       ELSE /\ to_ids' = Remaining(themes, Values(theme_handles))
            /\ found_new' = FALSE
            /\ pc' = "pass"
            /\ UNCHANGED result
    /\ UNCHANGED <<definition, todo, calls, themes, handle_index,
                   theme_handles, iteration, log, built>>
    /\ UNCHANGED <<anim_vars, query_vars, image_vars>>

\* theme.rs:121-148, one iteration of `for to_id in to_ids.iter()`
Visit(to_id) ==
    /\ pc = "pass"
    /\ to_id \in to_ids
    /\ LET st == ResolveOne(Locals, to_id) IN
       /\ themes' = st.themes
       /\ handle_index' = st.handle_index
       /\ theme_handles' = st.theme_handles
       /\ found_new' = st.found_new
       /\ log' = IF st.log = <<>> THEN log ELSE st.log
       /\ IF st.err # "none" THEN pc' = "done" /\ result' = st.err
          ELSE IF st.overflow THEN pc' = "done" /\ result' = "Overflow"
          ELSE UNCHANGED <<pc, result>>
    /\ to_ids' = Remaining(themes', to_ids \ {to_id})
    /\ UNCHANGED <<definition, todo, calls, iteration, built>>
    /\ UNCHANGED <<anim_vars, query_vars, image_vars>>

\* theme.rs:150-161, the end of a pass
EndPass ==
    /\ pc = "pass"
    /\ to_ids = {}
    /\ IF ~found_new
       THEN pc' = "done" /\ result' = "Ok" /\ UNCHANGED iteration
       ELSE pc' = "loop" /\ iteration' = iteration + 1 /\ UNCHANGED result
    /\ UNCHANGED <<definition, todo, calls, themes, handle_index,
                   theme_handles, to_ids, found_new, log, built>>
    /\ UNCHANGED <<anim_vars, query_vars, image_vars>>

Next ==
    \/ \E theme_id \in todo :
          \E keys \in Orders(DOMAIN definition[theme_id].children) :
              CreateWidget(theme_id, keys)
    \/ \E keys \in ChildKeyOrders : CreateChild(keys)
    \/ CreateReturn
    \/ EndBuild
    \/ BeginPass
    \/ \E to_id \in to_ids : Visit(to_id)
    \/ EndPass

Spec == Init /\ [][Next]_vars

SpecAll == InitAll /\ [][Next]_vars

(***************************************************************************)
(* Parsing one animation-state string.                                     *)
(***************************************************************************)
\* the deserializer is handed one of the input strings
InitParse ==
    /\ ThemeIdle
    /\ QueryIdle
    /\ ImageIdle
    /\ value \in Inputs(MaxTokens)
    /\ parsed = None
    /\ anim = None
    /\ anim_before = None
    /\ anim_op = <<>>

\* Deserialize for AnimState (theme_definition.rs:265-269): visit_str is run
\* on the string
VisitStr ==
    /\ pc = "idle"
    /\ parsed = None
    /\ parsed' = Some(visit_str(value))
    /\ UNCHANGED <<value, anim, anim_before, anim_op>>
    /\ UNCHANGED <<theme_vars, query_vars, image_vars>>

NextParse == VisitStr

SpecParse == InitParse /\ [][NextParse]_vars

(***************************************************************************)
(* An AnimState value made and changed through the public API.             *)
(***************************************************************************)
InitAnim == ThemeIdle /\ AnimIdle /\ QueryIdle /\ ImageIdle

\* a caller obtains the value `state` by the operation op
Made(state, op) ==
    /\ pc = "idle"
    /\ anim = None
    /\ anim' = Some(state)
    /\ anim_before' = anim
    /\ anim_op' = op
    /\ UNCHANGED <<value, parsed>>
    /\ UNCHANGED <<theme_vars, query_vars, image_vars>>

New(state) == Made(new(state), <<"new", state>>)
WithTwo(state1, state2) ==
    Made(with_two(state1, state2), <<"with_two", state1, state2>>)
WithThree(state1, state2, state3) ==
    Made(with_three(state1, state2, state3),
         <<"with_three", state1, state2, state3>>)
WithFour(state1, state2, state3, state4) ==
    Made(with_four(state1, state2, state3, state4),
         <<"with_four", state1, state2, state3, state4>>)
Normal == Made(normal, <<"normal">>)
Pressed == Made(pressed, <<"pressed">>)
Hover == Made(hover, <<"hover">>)
Disabled == Made(disabled, <<"disabled">>)

\* the value is read from a string that parses
Deserialize(string) ==
    /\ visit_str(string).err = "none"
    /\ Made(visit_str(string).state, <<"deserialize">>)

\* AnimState::add on the value held
Add(to_add) ==
    /\ pc = "idle"
    /\ anim # None
    /\ anim' = Some(add(Unwrap(anim), to_add))
    /\ anim_before' = anim
    /\ anim_op' = <<"add", to_add>>
    /\ UNCHANGED <<value, parsed>>
    /\ UNCHANGED <<theme_vars, query_vars, image_vars>>

\* the set of the keys
Keys == {AnimStateKey[i] : i \in 1..Len(AnimStateKey)}

NextAnim ==
    \/ \E state \in Keys : New(state)
    \/ \E state1, state2 \in Keys : WithTwo(state1, state2)
    \/ \E state1, state2, state3 \in Keys : WithThree(state1, state2, state3)
    \/ \E state1, state2, state3, state4 \in Keys :
          WithFour(state1, state2, state3, state4)
    \/ Normal
    \/ Pressed
    \/ Hover
    \/ Disabled
    \/ anim = None /\ \E string \in Inputs(MaxTokens) : Deserialize(string)
    \/ \E to_add \in Keys : Add(to_add)

SpecAnim == InitAnim /\ [][NextAnim]_vars

(***************************************************************************)
(* Parsing one color string.                                               *)
(***************************************************************************)
\* the deserializer is handed one of the color strings
InitColor ==
    /\ ThemeIdle
    /\ QueryIdle
    /\ ImageIdle
    /\ value \in ColorInputs(MaxHexLen)
    /\ parsed = None
    /\ anim = None
    /\ anim_before = None
    /\ anim_op = <<>>

\* Deserialize for Color (theme_definition.rs:524-528): visit_str is run on
\* the string
VisitColorStr ==
    /\ pc = "idle"
    /\ parsed = None
    /\ parsed' = Some(ColorVisitor_visit_str(value))
    /\ UNCHANGED <<value, anim, anim_before, anim_op>>
    /\ UNCHANGED <<theme_vars, query_vars, image_vars>>

NextColor == VisitColorStr

SpecColor == InitColor /\ [][NextColor]_vars

(***************************************************************************)
(* Queries of fonts and images on a built store (theme.rs:172-206).        *)
(***************************************************************************)
\* the most warnings written before the queries stop
MaxWarnings == 4

\* ThemeSet::find_font: [ret, warn], warn being the messages written
find_font(font_handles, id) ==
    IF id = None THEN [ret |-> None, warn |-> <<>>]
    ELSE IF Unwrap(id) \notin DOMAIN font_handles
    THEN [ret |-> None, warn |-> <<[kind |-> "font", id |-> Unwrap(id)]>>]
    ELSE [ret |-> Some(font_handles[Unwrap(id)]), warn |-> <<>>]

\* ThemeSet::find_image
find_image(image_handles, id) ==
    IF id = None THEN [ret |-> None, warn |-> <<>>]
    ELSE IF Unwrap(id) \notin DOMAIN image_handles
    THEN [ret |-> None, warn |-> <<[kind |-> "image", id |-> Unwrap(id)]>>]
    ELSE [ret |-> Some(image_handles[Unwrap(id)]), warn |-> <<>>]

\* the names fonts and images are asked for: none, registered ones and
\* ones that are not registered
FontQueries == {None, Some(<<"medium">>), Some(<<"small">>),
                Some(<<"huge">>), Some(<<"tiny">>)}
ImageQueries == {None, Some(<<"gui", "/", "button">>),
                 Some(<<"gui", "/", "nope">>)}

InitQuery == ThemeIdle /\ AnimIdle /\ QueryIdle /\ ImageIdle

\* a widget asks the store for a font while a frame is built
FindFont(id) ==
    /\ pc = "idle"
    /\ Len(warnings) < MaxWarnings
    /\ LET r == find_font(FontTable, id) IN
       /\ warnings' = warnings \o r.warn
       /\ query_ret' = Some([call |-> "find_font", id |-> id, ret |-> r.ret])
    /\ UNCHANGED <<theme_vars, anim_vars, image_vars>>

\* a widget asks the store for an image while a frame is built
FindImage(id) ==
    /\ pc = "idle"
    /\ Len(warnings) < MaxWarnings
    /\ LET r == find_image(ImageTable, id) IN
       /\ warnings' = warnings \o r.warn
       /\ query_ret' = Some([call |-> "find_image", id |-> id, ret |-> r.ret])
    /\ UNCHANGED <<theme_vars, anim_vars, image_vars>>

NextQuery ==
    \/ \E id \in FontQueries : FindFont(id)
    \/ \E id \in ImageQueries : FindImage(id)

SpecQuery == InitQuery /\ [][NextQuery]_vars

(***************************************************************************)
(* ThemeSet::new on long chains of references, in the iteration orders    *)
(* of the maps that resolve a chain from either end.                       *)
(***************************************************************************)
WidgetNames ==
    <<"w00", "w01", "w02", "w03", "w04", "w05", "w06", "w07", "w08",
      "w09", "w10", "w11", "w12", "w13", "w14", "w15", "w16", "w17",
      "w18", "w19", "w20">>

\* the place of a widget name in WidgetNames
NameIndex(id) == CHOOSE i \in 1..Len(WidgetNames) : <<WidgetNames[i]>> = id

\* n widgets without children, the first with a size, each other one
\* inheriting from the one before it
ChainOf(n) ==
    [id \in {<<WidgetNames[i]>> : i \in 1..n} |->
        IF NameIndex(id) = 1
        THEN [Leaf(None) EXCEPT !.size = Some(<<3, 4>>)]
        ELSE Leaf(Some(<<WidgetNames[NameIndex(id) - 1]>>))]

\* chains with one reference less than MAX_ITERATIONS, and with as many
LongChains == {ChainOf(MAX_ITERATIONS), ChainOf(MAX_ITERATIONS + 1)}

InitChain == InitOn(LongChains)

\* the first and the last of a set of numbers
MinOf(S) == CHOOSE x \in S : \A y \in S : x <= y
MaxOf(S) == CHOOSE x \in S : \A y \in S : x >= y

\* definition.widgets is iterated in the order of the names; theme_handles
\* is iterated from either end of what is left of it
NextChain ==
    \/ \E theme_id \in {id \in todo :
                           NameIndex(id) = MinOf({NameIndex(t) : t \in todo})} :
          CreateWidget(theme_id, <<>>)
    \/ CreateReturn
    \/ EndBuild
    \/ BeginPass
    \/ \E to_id \in {h \in to_ids : h \in {MinOf(to_ids), MaxOf(to_ids)}} :
          Visit(to_id)
    \/ EndPass

SpecChain == InitChain /\ [][NextChain]_vars

(***************************************************************************)
(* The construction of the images of one image set (theme.rs:48-77).       *)
(***************************************************************************)
\* an image definition: its kind, the frames of a Timed image and the states
\* of an Animated image
ImageDefinition(kind, frames, states) ==
    [kind |-> kind, frames |-> frames, states |-> states]
SimpleImage == ImageDefinition("Simple", <<>>, <<>>)
ComposedImage == ImageDefinition("Composed", <<>>, <<>>)
TimedImage(frames) == ImageDefinition("Timed", frames, <<>>)
AnimatedImage(states) == ImageDefinition("Animated", <<>>, states)

\* the ids of other images an image definition refers to
ImageRefs(def) ==
    {def.frames[i] : i \in DOMAIN def.frames}
    \cup {def.states[k] : k \in DOMAIN def.states}

\* Image::new: the image of the definition, its references looked up in
\* `others`; a reference that is not there is a missing resource
ImageNew(image_id, def, others) ==
    IF \E ref \in ImageRefs(def) : ref \notin DOMAIN others
    THEN [err |-> "ErrImage", image |-> <<>>]
    ELSE [err |-> "none",
          image |-> <<[id |-> image_id, kind |-> def.kind,
                       sub_images |-> ImageRefs(def)]>>]

\* the image set of the crate documentation: two simple images, a timed one
\* showing them in turn and an animated one
DocImages ==
    (<<"button_normal">> :> SimpleImage)
 @@ (<<"button_bright">> :> SimpleImage)
 @@ (<<"button_flash">> :>
        TimedImage(<< <<"button_normal">>, <<"button_bright">> >>))
 @@ (<<"button">> :>
        AnimatedImage(("Normal" :> <<"button_normal">>)
                   @@ ("Hover" :> <<"button_flash">>)))

\* an animated image over a composed and a simple image
PlainImages ==
    (<<"frame">> :> ComposedImage)
 @@ (<<"fill">> :> SimpleImage)
 @@ (<<"panel">> :>
        AnimatedImage(("Normal" :> <<"frame">>) @@ ("Pressed" :> <<"fill">>)))

\* a timed image one of whose frames the set does not define
GhostImages ==
    (<<"a">> :> SimpleImage)
 @@ (<<"flash">> :> TimedImage(<< <<"a">>, <<"ghost">> >>))

\* a scrollbar: images without references and two animated images over them
BarImages ==
    (<<"bar">> :> ComposedImage)
 @@ (<<"bar_hover">> :> ComposedImage)
 @@ (<<"thumb">> :> SimpleImage)
 @@ (<<"thumb_down">> :> SimpleImage)
 @@ (<<"track">> :>
        AnimatedImage(("Normal" :> <<"bar">>) @@ ("Hover" :> <<"bar_hover">>)))
 @@ (<<"handle">> :>
        AnimatedImage(("Normal" :> <<"thumb">>)
                   @@ ("Pressed" :> <<"thumb_down">>)))

\* an animated image one of whose states the set does not define
GhostStateImages ==
    (<<"up">> :> SimpleImage)
 @@ (<<"key">> :>
        AnimatedImage(("Normal" :> <<"up">>) @@ ("Pressed" :> <<"down">>)))

ImageSets ==
    {DocImages, PlainImages, GhostImages, BarImages, GhostStateImages}

\* the id of the image set
set_id == <<"gui">>

\* the loop over definition.image_sets has reached a set whose texture it
\* has found
InitImages ==
    /\ ThemeIdle
    /\ AnimIdle
    /\ QueryIdle
    /\ image_defs \in ImageSets
    /\ image_todo = DOMAIN image_defs
    /\ animated_images = <<>>
    /\ images_in_set = <<>>
    /\ image_call = None
    /\ image_result = "none"
    /\ all_images = <<>>

\* theme.rs:58-66, one iteration of `for (image_id, image_def) in set.images`
ParseImage(image_id) ==
    /\ image_result = "none"
    /\ image_id \in image_todo
    /\ image_todo' = image_todo \ {image_id}
    /\ IF image_defs[image_id].kind = "Animated"
       THEN /\ animated_images' = Append(animated_images, image_id)
            /\ UNCHANGED <<images_in_set, image_call, image_result>>
       ELSE LET r == ImageNew(image_id, image_defs[image_id], images_in_set)
            IN  /\ image_call' = Some([id |-> image_id,
                                       def |-> image_defs[image_id],
                                       others |-> DOMAIN images_in_set])
                /\ IF r.err # "none"
                   THEN image_result' = r.err /\ UNCHANGED images_in_set
                   ELSE /\ images_in_set' =
                               Insert(images_in_set, image_id, Unwrap(r.image))
                        /\ UNCHANGED image_result
                /\ UNCHANGED animated_images
    /\ UNCHANGED <<image_defs, all_images>>
    /\ UNCHANGED <<theme_vars, anim_vars, query_vars>>

\* theme.rs:69-72, one iteration of `for (id, image_def) in animated_images`
ParseAnimated ==
    /\ image_result = "none"
    /\ image_todo = {}
    /\ animated_images # <<>>
    /\ LET id == Head(animated_images)
           r == ImageNew(id, image_defs[id], images_in_set)
       IN  /\ image_call' = Some([id |-> id, def |-> image_defs[id],
                                  others |-> DOMAIN images_in_set])
           /\ IF r.err # "none"
              THEN image_result' = r.err /\ UNCHANGED images_in_set
              ELSE /\ images_in_set' = Insert(images_in_set, id, Unwrap(r.image))
                   /\ UNCHANGED image_result
    /\ animated_images' = Tail(animated_images)
    /\ UNCHANGED <<image_defs, image_todo, all_images>>
    /\ UNCHANGED <<theme_vars, anim_vars, query_vars>>

\* theme.rs:74-76, the images of the set go to `images` under "set/id"
FinishSet ==
    /\ image_result = "none"
    /\ image_todo = {}
    /\ animated_images = <<>>
    /\ all_images' = [p \in {Join(set_id, id) : id \in DOMAIN images_in_set} |->
                         images_in_set[SubSeq(p, Len(set_id) + 2, Len(p))]]
    /\ image_result' = "Ok"
    /\ UNCHANGED <<image_defs, image_todo, animated_images, images_in_set,
                   image_call>>
    /\ UNCHANGED <<theme_vars, anim_vars, query_vars>>

NextImages ==
    \/ \E image_id \in image_todo : ParseImage(image_id)
    \/ ParseAnimated
    \/ FinishSet

SpecImages == InitImages /\ [][NextImages]_vars


\* ThemeSet::theme, theme.rs:164-166 (with ThemeSet::handle, 208-210)
Theme(id) ==
    IF id \in DOMAIN theme_handles THEN Some(At(themes, theme_handles[id]))
    ELSE None
(***************************************************************************)
(* Properties.                                                             *)
(***************************************************************************)
\* the handles of the records of the finished arena that can be reached:
\* through the path index or through a record's children list
Handles == 0..(Len(themes) - 1)

\* the results with which WidgetTheme::create fails
BuildErrors == {"ErrName", "ErrImage", "ErrFont"}

\* ThemeSet::new has returned, and not with an error of the build
ReturnedAfterBuild == pc = "done" /\ result \notin BuildErrors
ReachableHandles ==
    Values(theme_handles) \cup UNION {ChildrenOf(themes, h) : h \in Handles}

\* C1: whenever ThemeSet::new returns Ok, no record that the path index or a
\* children list reaches still has a pending `from` reference.
C1_OkMeansNoPendingFrom ==
    result = "Ok" =>
        \A h \in ReachableHandles : At(themes, h).from = None

\* C2: inheritance resolution terminates with Ok or Err for every theme and
\* keeps the arena bounded: the recursion of merge_from and
\* add_children_recursive never runs until the arena is exhausted.
C2_ResolutionTerminates == result # "Overflow"
\* the set S of handles as the list a pass visits when the index happens to
\* be iterated in ascending handle order
RECURSIVE Ascending(_)
Ascending(S) ==
    IF S = {} THEN <<>>
    ELSE LET least == CHOOSE x \in S : \A y \in S : x <= y
         IN  <<least>> \o Ascending(S \ {least})

\* theme.rs:121-148 over the whole list to_ids, in the order of the list
RECURSIVE RunPass(_, _)
RunPass(st, ids) ==
    IF ids = <<>> \/ st.err # "none" \/ st.overflow THEN st
    ELSE RunPass(ResolveOne(st, Head(ids)), Tail(ids))

\* theme.rs:110-161 with every pass in ascending handle order; the result is
\* the final locals, with the value returned in err
RECURSIVE RunLoop(_, _)
RunLoop(st, iter) ==
    IF iter = MAX_ITERATIONS THEN [st EXCEPT !.err = "ErrCircular"]
    ELSE
    LET st1 == RunPass([st EXCEPT !.found_new = FALSE],
                       Ascending(Values(st.theme_handles)))
    IN  IF st1.err # "none" THEN st1
        ELSE IF st1.overflow THEN [st1 EXCEPT !.err = "Overflow"]
        ELSE IF ~st1.found_new THEN [st1 EXCEPT !.err = "Ok"]
        ELSE RunLoop(st1, iter + 1)

\* what a caller can observe of a record: everything but the handle numbers,
\* with the children given by their local ids
Observable(ts, h) ==
    LET r == At(ts, h) IN
    [full_id |-> r.full_id, id |-> r.id, from |-> r.from,
     text |-> r.text, text_color |-> r.text_color, font |-> r.font,
     background |-> r.background, foreground |-> r.foreground,
     wants_mouse |-> r.wants_mouse, text_align |-> r.text_align,
     pos |-> r.pos, size |-> r.size, width_from |-> r.width_from,
     height_from |-> r.height_from, border |-> r.border, align |-> r.align,
     child_align |-> r.child_align, layout |-> r.layout,
     layout_spacing |-> r.layout_spacing,
     children |-> {At(ts, c).id : c \in ChildrenOf(ts, h)}]

\* the outcome of ThemeSet::new: an error, or the indexed paths with the
\* record each of them leads to
Outcome(res, ts, index) ==
    IF res = "Ok"
    THEN [ok |-> TRUE, store |-> [p \in DOMAIN index |-> Observable(ts, index[p])]]
    ELSE [ok |-> FALSE, store |-> <<>>]

\* the outcome when the built arena is resolved in ascending handle order
AscendingOutcome ==
    LET st == RunLoop([themes |-> built.themes,
                       handle_index |-> built.handle_index,
                       theme_handles |-> built.theme_handles,
                       found_new |-> FALSE, err |-> "none", ret |-> 0,
                       overflow |-> FALSE, log |-> <<>>], 0)
    IN  Outcome(st.err, st.themes, st.theme_handles)

\* C3: for a fixed definition the outcome of ThemeSet::new (Ok or Err, the
\* indexed paths and the records' fields) is the same for every visit order:
\* whatever order the passes took, the outcome is the one of the ascending
\* order.
C3_OutcomeIndependentOfVisitOrder ==
    ReturnedAfterBuild =>
        Outcome(result, themes, theme_handles) = AscendingOutcome
\* the child of record h with local id `id`, as an Option of its handle
ChildById(h, id) == FindChild(themes, At(themes, h).children, id)

\* C4: the theme of the crate documentation resolves, in every visit order,
\* to main_window_titlebar with button's background and size [100,25], a
\* child label with font medium and text "Main Window", and a child
\* close_button with button's background, foreground gui/close and size
\* [25,25].
C4_DocThemeResolved ==
    (definition = DocTheme /\ pc = "done") =>
        /\ result = "Ok"
        /\ LET m == theme_handles[<<"main_window_titlebar">>]
               button == Unwrap(Theme(<<"button">>))
               label == ChildById(m, <<"label">>)
               close == ChildById(m, <<"close_button">>)
           IN  /\ At(themes, m).background = button.background
               /\ At(themes, m).background = Some(ImageTable[<<"gui", "/", "button">>])
               /\ At(themes, m).size = Some(<<100, 25>>)
               /\ Len(At(themes, m).children) = 2
               /\ IsSome(label) /\ IsSome(close)
               /\ At(themes, Unwrap(label)).font = Some(FontTable[<<"medium">>])
               /\ At(themes, Unwrap(label)).text = Some(<<"Main Window">>)
               /\ At(themes, Unwrap(close)).background = button.background
               /\ At(themes, Unwrap(close)).foreground =
                      Some(ImageTable[<<"gui", "/", "close">>])
               /\ At(themes, Unwrap(close)).size = Some(<<25, 25>>)
               /\ Theme(<<"main_window_titlebar", "/", "label">>) =
                      Some(At(themes, Unwrap(label)))
               /\ Theme(<<"main_window_titlebar", "/", "close_button">>) =
                      Some(At(themes, Unwrap(close)))

\* the documented theme has been resolved and main_window_titlebar has got
\* its close_button
C4_Witness ==
    /\ definition = DocTheme
    /\ result = "Ok"
    /\ IsSome(ChildById(theme_handles[<<"main_window_titlebar">>],
                        <<"close_button">>))

\* the optional scalar style fields of WidgetTheme, theme.rs:227-245
ScalarFields ==
    {"text", "text_color", "font", "background", "foreground", "wants_mouse",
     "text_align", "pos", "size", "width_from", "height_from", "border",
     "align", "child_align", "layout", "layout_spacing"}

\* the merges (calls of merge_from, top-level and recursive) of the last visit
Merges == {i \in 1..Len(log) : log[i].op = "merge"}

\* C5: in every merge, top-level or recursive, each scalar field that is set
\* on the destination before the merge has the same value after it.
C5_DestinationWins ==
    \A i \in Merges : \A f \in ScalarFields :
        log[i].to[f] # None =>
            /\ log[i].merged[f] = log[i].to[f]
            /\ At(themes, log[i].to_id)[f] = log[i].to[f]

\* a recursive merge in which source and destination both set a field, to
\* different values
C5_Witness ==
    \E i \in Merges : \E f \in ScalarFields :
        /\ log[i].to.parent_handle # None
        /\ log[i].to[f] # None
        /\ log[i].from[f] # None
        /\ log[i].from[f] # log[i].to[f]

\* C6: in every merge, a scalar field that is unset on the destination has
\* after the merge the value it has on the source (and stays unset when the
\* source has none), for every one of the optional scalar fields.
C6_UnsetFieldsTakenFromSource ==
    \A i \in Merges : \A f \in ScalarFields :
        log[i].to[f] = None => log[i].merged[f] = log[i].from[f]
\* the local ids of the records a children list names
IdsOf(children) == {At(themes, children[i]).id : i \in 1..Len(children)}

\* record h lies in the subtree rooted at record root
RECURSIVE InSubtree(_, _)
InSubtree(h, root) ==
    \/ h = root
    \/ /\ IsSome(At(themes, h).parent_handle)
       /\ InSubtree(Unwrap(At(themes, h).parent_handle), root)

\* the subtrees rooted at records a and b have the same shape, local ids,
\* references and scalar field values
RECURSIVE SameSubtree(_, _)
SameSubtree(a, b) ==
    LET ra == At(themes, a)
        rb == At(themes, b)
    IN  /\ ra.id = rb.id
        /\ ra.from = rb.from
        /\ \A f \in ScalarFields : ra[f] = rb[f]
        /\ Len(ra.children) = Len(rb.children)
        /\ \A i \in 1..Len(ra.children) :
               SameSubtree(ra.children[i], rb.children[i])

\* after the merge recorded as log[i], the destination has a child of local
\* id c exactly if source or destination had one before
ChildUnion(i) ==
    IdsOf(At(themes, log[i].to_id).children) =
        IdsOf(log[i].to.children) \cup IdsOf(log[i].from.children)

\* after the merge recorded as log[i], every child only the source had has a
\* copy below the destination that equals the source's subtree
ClonesEqualSource(i) ==
    \A k \in 1..Len(log[i].from.children) :
        LET src == log[i].from.children[k]
            copy == ChildById(log[i].to_id, At(themes, src).id)
        IN  At(themes, src).id \notin IdsOf(log[i].to.children) =>
                IsSome(copy) /\ SameSubtree(Unwrap(copy), src)

\* C7 as claimed: after merging S into D, D has a child of local id c iff D
\* or S had one before, and a child only S had is cloned below D with the
\* shape, local ids and field values of S's subtree at that child.
C7_ChildUnionAndEqualClones ==
    result # "Overflow" =>
        \A i \in Merges : ChildUnion(i) /\ ClonesEqualSource(i)

\* C7 as amended: the same, with the equality of the clone only claimed when
\* the destination D is not inside the subtree of the source S.
C7_ChildUnionAndEqualClonesOutside ==
    result # "Overflow" =>
        \A i \in Merges :
            /\ ChildUnion(i)
            /\ ~InSubtree(log[i].to_id, log[i].from_id) => ClonesEqualSource(i)

\* a merge has cloned, below a destination outside the source, a child with
\* children of its own that only the source had
C7_Witness ==
    /\ result # "Overflow"
    /\ \E i \in Merges :
          /\ ~InSubtree(log[i].to_id, log[i].from_id)
          /\ IdsOf(log[i].to.children) # {}
          /\ \E k \in 1..Len(log[i].from.children) :
                /\ At(themes, log[i].from.children[k]).id
                       \notin IdsOf(log[i].to.children)
                /\ At(themes, log[i].from.children[k]).children # <<>>
\* C8: after every insertion during building and resolution and in the
\* finished store, distinct records have distinct fully-qualified ids and the
\* path index maps each record's full_id to the record's own handle, so that
\* ThemeSet::theme(p) returns a record whose full_id is p for every indexed p
\* (stated of the runs that do not exhaust the arena).
C8_FullIdsUniqueAndIndexed ==
    result # "Overflow" =>
        /\ \A a, b \in Handles :
               a # b => At(themes, a).full_id # At(themes, b).full_id
        /\ \A h \in Handles :
               /\ At(themes, h).full_id \in DOMAIN theme_handles
               /\ theme_handles[At(themes, h).full_id] = h
        /\ \A p \in DOMAIN theme_handles : Unwrap(Theme(p)).full_id = p

\* the pairs <<full id, from name>> of the widget definitions below `def`,
\* whose own full id is `path`
RECURSIVE FromEdgesOf(_, _)
FromEdgesOf(path, def) ==
    (IF IsSome(def.from) THEN {<<path, Unwrap(def.from)>>} ELSE {})
    \cup UNION {FromEdgesOf(Join(path, c), def.children[c]) :
                    c \in DOMAIN def.children}
FromEdges(widgets) ==
    UNION {FromEdgesOf(w, widgets[w]) : w \in DOMAIN widgets}

\* two top-level widgets of the definition refer to each other, or a
\* widget at any depth refers to itself
HasMutualOrSelfReference(widgets) ==
    \/ \E a, b \in DOMAIN widgets :
           a # b /\ widgets[a].from = Some(b) /\ widgets[b].from = Some(a)
    \/ \E e \in FromEdges(widgets) : e[1] = e[2]

\* C9: a theme in which two top-level widgets refer to each other, or a
\* widget refers to itself, is never resolved to Ok; ThemeSet::new stops
\* after MAX_ITERATIONS passes with the circular-reference error.
C9_CycleIsRejected ==
    HasMutualOrSelfReference(definition) =>
        /\ result \in {"none", "ErrCircular"}
        /\ iteration <= MAX_ITERATIONS
        /\ pc = "done" => result = "ErrCircular" /\ iteration = MAX_ITERATIONS

\* the names the widget definitions give as `from`, at any depth
RECURSIVE FromNamesOf(_)
FromNamesOf(def) ==
    (IF IsSome(def.from) THEN {Unwrap(def.from)} ELSE {})
    \cup UNION {FromNamesOf(def.children[c]) : c \in DOMAIN def.children}
FromNames(widgets) == UNION {FromNamesOf(widgets[w]) : w \in DOMAIN widgets}

\* C10: when a widget definition at any depth has a `from` name that the
\* path index never holds (the index only grows, so: does not hold at the
\* end), ThemeSet::new returns the invalid-from error and not Ok.
C10_UnknownFromIsReported ==
    (ReturnedAfterBuild
        /\ \E n \in FromNames(definition) : n \notin DOMAIN theme_handles)
    => result = "ErrInvalidFrom"

\* the full ids of the widget definitions below `def`
RECURSIVE DefPathsOf(_, _)
DefPathsOf(path, def) ==
    {path} \cup UNION {DefPathsOf(Join(path, c), def.children[c]) :
                           c \in DOMAIN def.children}
DefPaths(widgets) == UNION {DefPathsOf(w, widgets[w]) : w \in DOMAIN widgets}

\* the full ids reached from `p` by following `from` names, in at most n steps
RECURSIVE FromReach(_, _, _)
FromReach(edges, ps, n) ==
    IF n = 0 THEN ps
    ELSE LET next == {e[2] : e \in {e \in edges : e[1] \in ps}}
         IN  next \cup FromReach(edges, next, n - 1)

\* some widget reaches itself by following `from` names
HasFromCycle(widgets) ==
    LET edges == FromEdges(widgets) IN
    \E e \in edges :
        e[1] \in FromReach(edges, {e[2]}, Cardinality(edges)) \cup {e[2]}

\* every `from` name is the full id of a widget of the definition
AllFromExist(widgets) ==
    \A e \in FromEdges(widgets) : e[2] \in DefPaths(widgets)

\* C11: a theme whose `from` names all exist and form no cycle is never
\* rejected with the circular-reference error, in any visit order.
C11_CircularErrorMeansCycle ==
    (AllFromExist(definition) /\ ~HasFromCycle(definition))
        => result # "ErrCircular"


\* the local ids of all widget definitions, at any depth
LocalIds(widgets) == (DOMAIN widgets) \cup ChildIds(widgets)

\* some local id of the definition contains the path separator
HasSlashId(widgets) ==
    \E id \in LocalIds(widgets) : \E i \in 1..Len(id) : id[i] = "/"


\* C12: when a local id at any depth contains '/', ThemeSet::new fails
\* during the build and never gets to a store; and no record of the arena,
\* cloned ones included, has a local id with '/'.
C12_SlashIdIsRejected ==
    /\ HasSlashId(definition) =>
            /\ pc \in {"build", "done"}
            /\ pc = "done" => result \in BuildErrors
    /\ \A n \in 1..Len(themes) :
            \A i \in 1..Len(themes[n].id) : themes[n].id[i] # "/"

\* the build has failed on a local id with '/' below the top level, after
\* other records had been created
C12_Witness ==
    /\ HasSlashId(definition)
    /\ \A id \in DOMAIN definition : \A i \in 1..Len(id) : id[i] # "/"
    /\ pc = "done"
    /\ result = "ErrName"
    /\ Len(themes) > 0

\* the pairs <<full id, definition>> of the widget definitions below `def`
RECURSIVE DefsOf(_, _)
DefsOf(path, def) ==
    {<<path, def>>} \cup UNION {DefsOf(Join(path, c), def.children[c]) :
                                   c \in DOMAIN def.children}
Defs(widgets) == UNION {DefsOf(w, widgets[w]) : w \in DOMAIN widgets}

\* the name is given and is not a key of the table
Unregistered(table, name) == name # <<>> /\ name[1] \notin DOMAIN table

\* some widget definition names an image or a font that is not registered
HasMissingResource(widgets) ==
    \E d \in Defs(widgets) :
        \/ Unregistered(ImageTable, d[2].background)
        \/ Unregistered(ImageTable, d[2].foreground)
        \/ Unregistered(FontTable, d[2].font)

\* the handle the table holds for an optional name
Registered(table, name) == IF name = <<>> THEN <<>> ELSE <<table[name[1]]>>

\* C13: when a widget definition at any depth names an unregistered image
\* or font, ThemeSet::new fails during the build; otherwise every record the
\* build created holds the handles the tables give for the names of its
\* definition.
C13_ResourcesResolvedOrRejected ==
    /\ HasMissingResource(definition) =>
            /\ pc \in {"build", "done"}
            /\ pc = "done" => result \in BuildErrors
    /\ pc \in {"loop", "pass"} \/ result \in {"Ok", "ErrInvalidFrom",
                                                "ErrCircular", "Overflow"} =>
            \A d \in Defs(definition) :
                /\ d[1] \in DOMAIN built.theme_handles
                /\ LET r == At(built.themes, built.theme_handles[d[1]]) IN
                   /\ r.background = Registered(ImageTable, d[2].background)
                   /\ r.foreground = Registered(ImageTable, d[2].foreground)
                   /\ r.font = Registered(FontTable, d[2].font)

\* the build has failed on an unregistered name below the top level, after
\* other records had been created
C13_Witness ==
    /\ \E d \in Defs(definition) :
            /\ d[1] \notin DOMAIN definition
            /\ \/ Unregistered(ImageTable, d[2].foreground)
               \/ Unregistered(FontTable, d[2].font)
    /\ pc = "done"
    /\ result \in {"ErrImage", "ErrFont"}
    /\ Len(themes) > 0


\* the nested definitions whose `from` is the local id of a sibling: records
\* [path, def, sibling, sibling_def], found below the definition `def` at
\* `path`
RECURSIVE SiblingRefsOf(_, _)
SiblingRefsOf(path, def) ==
    {[path |-> Join(path, c), def |-> def.children[c],
      sibling |-> Join(path, s), sibling_def |-> def.children[s]] :
        <<c, s>> \in {cs \in (DOMAIN def.children) \X (DOMAIN def.children) :
                        /\ cs[1] # cs[2]
                        /\ def.children[cs[1]].from = Some(cs[2])}}
    \cup UNION {SiblingRefsOf(Join(path, c), def.children[c]) :
                    c \in DOMAIN def.children}
SiblingRefs(widgets) ==
    UNION {SiblingRefsOf(w, widgets[w]) : w \in DOMAIN widgets}

\* fields that a record takes over unchanged from its definition
PlainFields ==
    {"wants_mouse", "text_align", "pos", "size", "width_from", "height_from",
     "border", "align", "child_align", "layout", "layout_spacing"}

\* C14: a nested widget whose `from` is the local id of one of its siblings
\* inherits from that sibling: the theme is built, and the fields the widget
\* leaves unset have the values the sibling sets.
C14_SiblingFromIsResolved ==
    \A e \in SiblingRefs(definition) :
        pc = "done" =>
            /\ result = "Ok"
            /\ Theme(e.path) # None
            /\ \A f \in PlainFields :
                   (e.def[f] = None /\ e.sibling_def[f] # None) =>
                       Unwrap(Theme(e.path))[f] = e.sibling_def[f]


(***************************************************************************)
(* Properties of the animation-state parser and of AnimState.              *)
(***************************************************************************)
\* the tokens of a string, read off the string itself: the pieces between
\* the '+' with their whitespace taken out
WordsOf(string) ==
    LET pieces == Split(string)
        NotBlank(c) == c \notin White_Space
    IN  [i \in DOMAIN pieces |-> SelectSeq(pieces[i], NotBlank)]

\* the tokens that name a key other than Normal
NonNormalWords == {<<"Hover">>, <<"Pressed">>, <<"Disabled">>, <<"Active">>}

\* no two tokens are the same
Distinct(ws) == \A i, j \in DOMAIN ws : i # j => ws[i] # ws[j]

\* 1 to 4 different keys other than Normal
DistinctKeys(ws) ==
    /\ Len(ws) \in 1..4
    /\ \A i \in DOMAIN ws : ws[i] \in NonNormalWords
    /\ Distinct(ws)

\* the orders in which the tokens ws can be written
Perms(ws) ==
    {p \in [DOMAIN ws -> {ws[i] : i \in DOMAIN ws}] :
        \A i, j \in DOMAIN ws : i # j => p[i] # p[j]}

\* what visit_str returned for value
Parsed == Unwrap(parsed)

\* C15: a string of 1 to 4 different keys other than Normal parses, and
\* every order of its keys, with any blanks around the '+', parses to the
\* same AnimState.
C15_ParseIndependentOfKeyOrder ==
    LET ws == WordsOf(value) IN
    (parsed # None /\ DistinctKeys(ws)) =>
        /\ Parsed.err = "none"
        /\ \A p \in Perms(ws) : \A pads \in [DOMAIN ws -> WidePads] :
               visit_str(MkValue(p, pads)) = Parsed

\* four keys written with blanks and not in the order of the keys have been
\* parsed
C15_Witness ==
    LET ws == WordsOf(value) IN
    /\ parsed # None
    /\ DistinctKeys(ws)
    /\ Len(ws) = 4
    /\ KeyOrd(ws[1][1]) > KeyOrd(ws[2][1])
    /\ \E i \in 1..Len(value) : value[i] = " "
    /\ Parsed.err = "none"

\* C16: a string with the token Normal parses only when Normal is its one
\* token, and then to the AnimState of four Normal keys.
C16_NormalOnlyAlone ==
    LET ws == WordsOf(value) IN
    (parsed # None /\ \E i \in DOMAIN ws : ws[i] = <<"Normal">>) =>
        /\ Parsed.err = "none" <=> ws = << <<"Normal">> >>
        /\ Parsed.err = "none" => Parsed.state = normal

\* Normal as the third token after two keys has been rejected
C16_Witness ==
    LET ws == WordsOf(value) IN
    /\ parsed # None
    /\ Len(ws) = 3
    /\ DistinctKeys(SubSeq(ws, 1, 2))
    /\ ws[3] = <<"Normal">>
    /\ Parsed.err = "NormalNotSole"

\* a key other than Normal is written twice
HasRepeat(ws) ==
    \E i, j \in DOMAIN ws : i < j /\ ws[i] = ws[j] /\ ws[i] \in NonNormalWords

\* the position of the first token that repeats an earlier key
FirstRepeat(ws) ==
    CHOOSE j \in DOMAIN ws :
        /\ HasRepeat(SubSeq(ws, 1, j))
        /\ ~HasRepeat(SubSeq(ws, 1, j - 1))

\* C17 as claimed: a string in which a key other than Normal occurs twice,
\* at any two positions, is rejected with the duplicate-key error.
C17_RepeatGivesDuplicateError ==
    (parsed # None /\ HasRepeat(WordsOf(value))) => Parsed.err = "Duplicate"

\* C17 as amended: such a string is rejected; the error is the duplicate-key
\* error when the second occurrence is among the first four tokens and every
\* token before it is a key other than Normal, and otherwise the error of
\* the defect that comes first.
C17_RepeatIsRejected ==
    LET ws == WordsOf(value) IN
    (parsed # None /\ HasRepeat(ws)) =>
        LET j == FirstRepeat(ws)
            clean == j <= 4 /\ \A i \in 1..(j - 1) : ws[i] \in NonNormalWords
        IN  /\ Parsed.err # "none"
            /\ clean => Parsed.err = "Duplicate"
            /\ ~clean => Parsed.err \in {"Unknown", "NormalNotSole", "TooMany"}

\* the first key written again as the fourth token has been rejected as a
\* duplicate
C17_Witness ==
    LET ws == WordsOf(value) IN
    /\ parsed # None
    /\ Len(ws) = 4
    /\ DistinctKeys(SubSeq(ws, 1, 3))
    /\ ws[4] = ws[1]
    /\ Parsed.err = "Duplicate"

\* C18: the parser accepts a string exactly when its tokens are the one
\* token Normal or 1 to 4 different keys other than Normal.
C18_AcceptsExactlyValidStrings ==
    LET ws == WordsOf(value) IN
    parsed # None =>
        (Parsed.err = "none" <=> (ws = << <<"Normal">> >> \/ DistinctKeys(ws)))

\* keys followed by a '+' with nothing after it have been rejected for the
\* empty token
C18_Witness ==
    LET ws == WordsOf(value) IN
    /\ parsed # None
    /\ Len(ws) >= 2
    /\ DistinctKeys(SubSeq(ws, 1, Len(ws) - 1))
    /\ ws[Len(ws)] = <<>>
    /\ Parsed.err = "Unknown"

\* C19: an AnimState obtained through the public API holds its keys in the
\* order of the keys.
C19_KeysSorted ==
    anim # None =>
        \A i, j \in 1..4 :
            i < j => KeyOrd(Unwrap(anim).keys[i]) <= KeyOrd(Unwrap(anim).keys[j])

\* C20: add(Normal) leaves the AnimState as it was.
C20_AddNormalHasNoEffect ==
    anim_op = <<"add", "Normal">> => anim = anim_before


(***************************************************************************)
(* Properties of the color parser.                                         *)
(***************************************************************************)
\* the string is '#' and then only hexadecimal digits
IsHexString(string) ==
    /\ string # <<>>
    /\ string[1] = "#"
    /\ \A i \in 2..Len(string) : string[i] \in HexDigits

\* C21: "#rgb" parses to the color "#rrggbb" parses to, each component being
\* its digit times 17 and at most 255; "#fff" is white and "#000" black.
C21_ShortHexEqualsLongHex ==
    (parsed # None /\ IsHexString(value) /\ Len(value) = 4) =>
        /\ Parsed.err = "none"
        /\ Parsed = ColorVisitor_visit_str(
                        <<"#", value[2], value[2], value[3], value[3],
                          value[4], value[4]>>)
        /\ Parsed.color = Color(HexValue(value[2]) * 17,
                                HexValue(value[3]) * 17,
                                HexValue(value[4]) * 17)
        /\ \A f \in {"r", "g", "b"} : Parsed.color[f] \in 0..255
        /\ value = <<"#", "f", "f", "f">> => Parsed.color = Color(255, 255, 255)
        /\ value = <<"#", "0", "0", "0">> => Parsed.color = Color(0, 0, 0)

\* a three-digit color with digits of both cases has been parsed
C21_Witness ==
    /\ parsed # None
    /\ value = <<"#", "F", "0", "a">>
    /\ Parsed = ColorOk(Color(255, 0, 170))

\* C22: a string that starts with '#' parses exactly when the '#' is
\* followed by 3 or by 6 hexadecimal digits and nothing else.
C22_HexAcceptedIffThreeOrSixDigits ==
    (parsed # None /\ value # <<>> /\ value[1] = "#") =>
        (Parsed.err = "none" <=> (IsHexString(value) /\ Len(value) \in {4, 7}))


(***************************************************************************)
(* Properties of the queries.                                              *)
(***************************************************************************)
\* C23: asking for a font or an image that is not registered gives no
\* resource, and the miss of a name is reported at most once, however often
\* the name is asked for.
C23_MissReportedOnce ==
    /\ query_ret # None =>
            LET q == Unwrap(query_ret)
                table == IF q.call = "find_font" THEN FontTable ELSE ImageTable
            IN  (q.id # None /\ Unwrap(q.id) \notin DOMAIN table) =>
                    q.ret = None
    /\ \A i, j \in DOMAIN warnings : i # j => warnings[i] # warnings[j]


\* no record of the arena has a pending reference
NoPending(ts) == \A n \in 1..Len(ts) : ts[n].from = None

\* the locals at the head of a pass
PassLocals == [Locals EXCEPT !.found_new = FALSE]

\* C24: on an arena in which no record has a pending reference, a visit of
\* any indexed record changes nothing and records no merge or clone, and the
\* resolution loop returns Ok with the arena, the path index and the handle
\* counter as they were.
C24_ResolvedArenaUnchanged ==
    (pc \in {"loop", "pass", "done"} /\ NoPending(themes)) =>
        /\ \A to_id \in Values(theme_handles) :
               ResolveOne(PassLocals, to_id) = PassLocals
        /\ RunLoop(PassLocals, 0) = [PassLocals EXCEPT !.err = "Ok"]

\* a theme with references has been resolved, with clones, and no record is
\* left with a reference
C24_Witness ==
    /\ pc = "done"
    /\ result = "Ok"
    /\ NoPending(themes)
    /\ FromNames(definition) # {}
    /\ Len(themes) > Len(built.themes)


(***************************************************************************)
(* Properties of the construction of an image set.                         *)
(***************************************************************************)
\* C25: when an image that refers to other images of its set is
\* constructed, every image it refers to that the set defines is in the
\* lookup table handed to the constructor, in every order of iteration.
C25_ReferencedImagesAlreadyBuilt ==
    image_call # None =>
        \A ref \in ImageRefs(Unwrap(image_call).def) :
            ref \in DOMAIN image_defs => ref \in Unwrap(image_call).others


(***************************************************************************)
(* Properties of merging and cloning: the source, and pending references.  *)
(***************************************************************************)
\* the path p lies below the path root
IsUnder(p, root) ==
    /\ Len(p) > Len(root) + 1
    /\ SubSeq(p, 1, Len(root)) = root
    /\ p[Len(root) + 1] = "/"

\* this step is a visit that has merged a source into the record visited
VisitMerged == pc = "pass" /\ themes' # themes /\ log' # <<>>

\* C26: a merge from a source record S into a destination D outside S's
\* subtree, with its recursive merges and clones, leaves every record of S's
\* subtree as it was (full_id, local id, parent handle, children, style
\* fields), and each cloned record gets a handle no earlier record has and
\* a full_id below D's path.
C26_SourceSubtreeUntouched ==
    [][(VisitMerged /\ result' # "Overflow"
        /\ ~InSubtree(log'[1].to_id, log'[1].from_id)) =>
           /\ \A h \in Handles :
                  InSubtree(h, log'[1].from_id) => At(themes', h) = At(themes, h)
           /\ \A i \in 1..Len(log') :
                  log'[i].op = "clone" =>
                      /\ log'[i].handle \notin Handles
                      /\ IsUnder(At(themes', log'[i].handle).full_id,
                                 At(themes, log'[1].to_id).full_id)]_vars


\* C27: in every merge, top-level or recursive, a destination that has a
\* pending reference of its own keeps it; the source's pending reference is
\* taken over only by a destination that has none.
C27_OwnReferenceKept ==
    \A i \in Merges :
        log[i].to.from # None => log[i].merged.from = log[i].to.from


\* C28 as claimed: whenever a record is the source of a merge or of a clone
\* (the root of the source subtree and every record below it are each the
\* source of one of them), it has no pending reference, and no record made
\* by cloning has a pending reference, when made or later.
C28_SourcesAndClonesResolved ==
    /\ \A i \in 1..Len(log) :
           /\ log[i].from.from = None
           /\ log[i].op = "clone" => log[i].merged.from = None
    /\ built.themes # <<>> =>
           \A h \in Handles :
               h >= Len(built.themes) => At(themes, h).from = None

\* C28 as amended: the root of the source of a merge the resolver starts has
\* no pending reference; a record below it may have one, and a record made
\* by cloning has the pending reference of the record it is cloned from
\* (none when that record has none).
C28_SourceRootResolvedClonesCopy ==
    /\ log # <<>> => log[1].op = "merge" /\ log[1].from.from = None
    /\ \A i \in 1..Len(log) :
           log[i].op = "clone" => log[i].merged.from = log[i].from.from

\* a merge from a source without a pending reference has cloned a record
\* that has one
C28_Witness ==
    /\ log # <<>>
    /\ log[1].from.from = None
    /\ \E i \in 1..Len(log) :
           log[i].op = "clone" /\ log[i].merged.from # None


\* the source the record to_id names is in the index and has a pending
\* reference of its own
SourcePending(to_id) ==
    LET from == At(themes, to_id).from IN
    /\ IsSome(from)
    /\ Unwrap(from) \in DOMAIN theme_handles
    /\ IsSome(At(themes, theme_handles[Unwrap(from)]).from)

\* C29: the resolver loop starts no merge from a source whose own reference
\* is pending: the visit of a record naming such a source merges and clones
\* nothing, the record keeps its reference and the arena stays as it is; so
\* the source of every merge the loop starts has been resolved before (in a
\* chain A from B from C, C is merged into B before B is merged into A).
C29_PendingSourceIsSkipped ==
    /\ pc = "pass" =>
           \A to_id \in to_ids :
               SourcePending(to_id) =>
                   LET st == ResolveOne(Locals, to_id) IN
                   /\ st.themes = themes
                   /\ st.theme_handles = theme_handles
                   /\ st.log = <<>>
                   /\ st.err = "none"
    /\ (log # <<>> /\ result # "Overflow") =>
           /\ log[1].op = "merge"
           /\ log[1].from.from = None

\* in a pass a record waits for its source, which has a reference of its
\* own, while that source has just been merged into from its own source
C29_Witness ==
    /\ pc = "pass"
    /\ log # <<>>
    /\ \E to_id \in to_ids :
           /\ IsSome(At(themes, to_id).from)
           /\ Unwrap(At(themes, to_id).from) \in DOMAIN theme_handles
           /\ theme_handles[Unwrap(At(themes, to_id).from)] = log[1].to_id
           /\ IsSome(At(built.themes, log[1].to_id).from)


(***************************************************************************)
(* Properties of the pass count.                                           *)
(***************************************************************************)
\* C30: ThemeSet::new returns the circular-reference error only when the
\* pass count has reached MAX_ITERATIONS while some record still has a
\* pending reference; a theme whose last pending reference is resolved in a
\* pass within the maximum is returned as Ok.
C30_CircularOnlyWithPendingLeft ==
    result = "ErrCircular" =>
        /\ iteration = MAX_ITERATIONS
        /\ ~NoPending(themes)


(***************************************************************************)
(* Properties of the records: fields, paths, handles, the forest.          *)
(***************************************************************************)
\* C31: once a scalar style field of a record is set, by the definition or
\* by a merge, no later step of the resolution changes its value.
C31_SetFieldNeverChanges ==
    [][\A h \in Handles : \A f \in ScalarFields :
           At(themes, h)[f] # None => At(themes', h)[f] = At(themes, h)[f]]_vars

\* a record has a field its definition left unset and an earlier merge
\* filled, and a later merge into the record, from a source with another
\* value for the field, has found it set
C31_Witness ==
    \E i \in Merges : \E f \in ScalarFields :
        /\ log[i].to_id < Len(built.themes)
        /\ At(built.themes, log[i].to_id)[f] = None
        /\ log[i].to[f] # None
        /\ log[i].from[f] # None
        /\ log[i].from[f] # log[i].to[f]
        /\ At(themes, log[i].to_id)[f] = log[i].to[f]


\* C32: after the build the arena holds one record per widget definition,
\* and the path index maps the path of each definition (the top-level name,
\* then each local id after a '/') to that definition's own record: a
\* record with a parent has full_id = parent's full_id + "/" + local id, a
\* top-level one has full_id = local id, and different definitions have
\* different records.
C32_BuildIndexesEveryNode ==
    built.themes # <<>> =>
        LET paths == DefPaths(definition) IN
        /\ Len(built.themes) = Cardinality(paths)
        /\ DOMAIN built.theme_handles = paths
        /\ \A p, q \in paths :
               p # q => built.theme_handles[p] # built.theme_handles[q]
        /\ \A p \in paths :
               LET h == built.theme_handles[p]
                   r == At(built.themes, h)
               IN  /\ r.handle = h
                   /\ r.full_id = p
                   /\ IF r.parent_handle = None
                      THEN r.full_id = r.id /\ r.id \in DOMAIN definition
                      ELSE r.full_id =
                               Join(At(built.themes,
                                       Unwrap(r.parent_handle)).full_id, r.id)

\* the build has ended on a theme with a widget two levels down
C32_Witness ==
    /\ built.themes # <<>>
    /\ \E n \in 1..Len(built.themes) :
           /\ IsSome(built.themes[n].parent_handle)
           /\ IsSome(At(built.themes,
                        Unwrap(built.themes[n].parent_handle)).parent_handle)


\* C33: in every state of the build and of the resolution, the handle of a
\* record is its position in the arena and is greater than the handle of
\* its parent.
C33_HandlesInPreorder ==
    \A n \in 1..Len(themes) :
        /\ themes[n].handle = n - 1
        /\ IsSome(themes[n].parent_handle) =>
               Unwrap(themes[n].parent_handle) < themes[n].handle

\* a merge has cloned a record with children of its own below a record of
\* the build
C33_Witness ==
    /\ built.themes # <<>>
    /\ \E n \in (Len(built.themes) + 1)..Len(themes) :
           /\ themes[n].children # <<>>
           /\ Unwrap(themes[n].parent_handle) < Len(built.themes)


\* the optional scalar fields of WidgetThemeDefinition,
\* theme_definition.rs:21-40
DefinitionFields == ScalarFields \cup {"wants_scroll"}

\* the value the record holds for the value v of field f of a definition:
\* the handle the table gives for a font or image name, v itself otherwise
BoundValue(f, v) ==
    IF f = "font" THEN Lookup(FontTable, v)
    ELSE IF f \in {"background", "foreground"} THEN Lookup(ImageTable, v)
    ELSE v

\* C34: each scalar style field a widget definition sets (text, text
\* color, font, background, foreground, the mouse and scroll flags,
\* alignments, position, size, sizing modes, border, layout, layout
\* spacing) is set in the record the build makes for it, to the same value,
\* or to the handle bound to the name.
C34_AuthoredFieldsCarried ==
    built.themes # <<>> =>
        \A d \in Defs(definition) : \A f \in DefinitionFields :
            d[2][f] # None =>
                LET r == At(built.themes, built.theme_handles[d[1]]) IN
                /\ f \in DOMAIN r
                /\ r[f] = BoundValue(f, d[2][f])


\* C35: in a store ThemeSet::new has returned, every child a record lists,
\* inherited ones included, is found by its path: for every indexed path p
\* and every handle c in the children of the record at p, the index maps
\* p + "/" + (local id of c) to c.
C35_ChildrenFoundByPath ==
    (pc = "done" /\ result = "Ok") =>
        \A p \in DOMAIN theme_handles :
            LET children == At(themes, theme_handles[p]).children IN
            \A i \in 1..Len(children) :
                LET path == Join(p, At(themes, children[i]).id) IN
                /\ path \in DOMAIN theme_handles
                /\ theme_handles[path] = children[i]


\* the number of places of the children list of record h that hold c
Occurrences(h, c) ==
    Cardinality({i \in 1..Len(At(themes, h).children) :
                    At(themes, h).children[i] = c})

\* lists and parent handles agree wherever a handle is listed: a handle in
\* a children list denotes a record of the arena whose parent_handle is
\* the listing record, and no handle is in two children lists
ListedChildrenAgree ==
    /\ \A h \in Handles : \A c \in ChildrenOf(themes, h) :
           /\ c \in Handles
           /\ At(themes, c).parent_handle = Some(h)
    /\ \A a, b \in Handles :
           a # b => ChildrenOf(themes, a) \cap ChildrenOf(themes, b) = {}

\* every record with a parent is listed exactly once by that parent
EachChildListedOnce ==
    \A c \in Handles :
        IsSome(At(themes, c).parent_handle) =>
            /\ Unwrap(At(themes, c).parent_handle) \in Handles
            /\ Occurrences(Unwrap(At(themes, c).parent_handle), c) = 1


\* the handles of the records whose call of create has not returned
Creating == {calls[i].handle : i \in 1..Len(calls)}

\* C37: after any sequence of merges no record has two children with the
\* same local id.
C37_ChildIdsDistinct ==
    \A h \in Handles :
        LET children == At(themes, h).children IN
        \A i, j \in 1..Len(children) :
            i # j => At(themes, children[i]).id # At(themes, children[j]).id


\* a merge into a record with children has merged a child of the source
\* into the like-named child and has cloned another child of the source
C37_Witness ==
    /\ result # "Overflow"
    /\ \E i \in Merges :
           /\ IdsOf(log[i].to.children) \cap IdsOf(log[i].from.children) # {}
           /\ IdsOf(log[i].from.children) \ IdsOf(log[i].to.children) # {}
           /\ Len(At(themes, log[i].to_id).children) > Len(log[i].to.children)


(***************************************************************************)
(* Properties relating the AnimState API, the parser and the serializer.   *)
(***************************************************************************)
\* the keys other than Normal a state holds
KeySet(state) == {state.keys[i] : i \in DOMAIN state.keys} \ {"Normal"}

\* the names of the keys ks joined by '+', in some order ("Normal" for none)
NameOfKeys(ks) ==
    IF ks = {} THEN <<"Normal">>
    ELSE LET ws == CHOOSE ws \in [1..Cardinality(ks) -> ks] :
                       \A i, j \in DOMAIN ws : i # j => ws[i] # ws[j]
         IN  MkValue([i \in DOMAIN ws |-> <<ws[i]>>],
                     [i \in DOMAIN ws |-> [l |-> <<>>, r |-> <<>>]])

\* C38: AnimState values obtained through the public API that hold the same
\* keys other than Normal are equal: each equals the state parsed from the
\* names of its keys (new(k) the one parsed from k's name, with_two(a, b)
\* the one parsed from "a+b"), and add(k) on a state that contains k leaves
\* it as it was.
C38_SameKeysSameState ==
    anim # None =>
        /\ Unwrap(anim) = visit_str(NameOfKeys(KeySet(Unwrap(anim)))).state
        /\ (anim_before # None /\ anim_op[1] = "add"
            /\ contains(Unwrap(anim_before), anim_op[2])) =>
               anim = anim_before


\* C39: serializing an AnimState the parser has produced (Normal alone, or
\* 1 to 4 different keys other than Normal) and parsing the string gives
\* the same AnimState.
C39_AnimStateRoundTrip ==
    (parsed # None /\ Parsed.err = "none") =>
        LET again == visit_str(serialize(Parsed.state)) IN
        /\ again.err = "none"
        /\ again.state = Parsed.state


\* C40: serializing a Color and parsing the string gives the same Color,
\* components below 16 included.
C40_ColorRoundTrip ==
    (parsed # None /\ Parsed.err = "none") =>
        ColorVisitor_visit_str(Color_serialize(Parsed.color))
            = ColorOk(Parsed.color)

=============================================================================
